---- MODULE Spec2Model ----
(***************************************************************************)
(* Model of the identity/event risk-correlation core:                      *)
(*   - IntegratedSanctionScreener (src/sanction_screener.py): the watchlist *)
(*     table sanction_entities, the fuzzy matcher, the screening scan and   *)
(*     the screening-result table;                                          *)
(*   - CyberFraudCorrelationEngine (src/correlation_engine.py): the event   *)
(*     tables, the temporal, behavioral and IOC correlators, the IOC        *)
(*     extraction, the correlation pass with the table correlation_results, *)
(*     and the cyber risk assessment.                                       *)
(*                                                                         *)
(* Scores are integers in thousandths (0.8 = 800, weights 600/200/200).     *)
(* The float sums of calculate_match_score agree with this scaling on the   *)
(* comparisons made here: for every partial ratio 0..100 and every field    *)
(* combination, sum(scores) >= 0.8 in Python floats iff the exact value is  *)
(* >= 0.8, and the sum is exactly 1.0 when the exact value is 1.            *)
(*                                                                         *)
(* Times are integers: days for the screener's clock, minutes for the       *)
(* detected_at of events and the engine's clock.  Confidences and risk      *)
(* scores are integers in hundredths.                                       *)
(***************************************************************************)
EXTENDS Integers, Sequences, FiniteSets, TLC

VARIABLES
    \* ---- IntegratedSanctionScreener ----
    sanction_entities,           \* table sanction_entities, in rowid order
    next_entity_id,              \* AUTOINCREMENT counter of sanction_entities
    customers,                   \* table customers: set of rows, key customer_id
    sanction_screening_results,  \* table sanction_screening_results, in rowid order
    now,                         \* datetime.now(), in days
    lastOp,                      \* the operation that ran last
    screen_call,                 \* argument and outcome of the screening call that ran last, if any
    ingest_call,                 \* arguments of the _store_sanction_entities call that ran last, if any
    latest,                      \* history: key -> entity of its most recent ingestion
    \* ---- the matcher applied to one (customer, row) pair ----
    m_customer, m_entity, m_out,
    \* ---- CyberFraudCorrelationEngine ----
    cyber_threat_events,         \* table cyber_threat_events, in rowid order
    fraud_events,                \* table fraud_events, in rowid order
    temporal_out,                \* result of the _find_temporal_correlations call that ran last, if any
    behavioral_out,              \* result of the _find_behavioral_correlations call that ran last, if any
    extract_out,                 \* argument and outcome of the _extract_iocs_from_event call that ran last, if any
    ioc_out,                     \* outcome of the _find_ioc_correlations call that ran last, if any
    correlation_results,         \* table correlation_results, in rowid order
    engine_now,                  \* datetime.now() of the engine, in minutes
    pass_out,                    \* outcome of the analyze_recent_activity call that ran last, if any
    risk_out,                    \* argument and outcome of the assess_customer_cyber_risk call that ran last, if any
    \* ---- CyberFraudPlatform (src/run_scrapper.py) ----
    onboard_out,                 \* argument and outcome of the process_customer_onboarding call that ran last, if any
    profile_out,                 \* arguments and outcome of the _update_customer_risk_profile call that ran last, if any
    alerts,                      \* the send_comprehensive_alert calls made so far, in order
    \* ---- calls with failures ----
    store_out,                   \* the correlations and the failing stores of the store loop that ran last, if any
    download_out,                \* the feeds and the outcome of the download_sanction_lists call that ran last, if any
    txn,                         \* the open transaction of the screener's connection, if any, with the rows other connections see
    read_out,                    \* what the screening of a second connection that ran last read, if any
    history_out,                 \* argument and outcome of the get_customer_correlation_history call that ran last, if any
    analysis_out,                \* outcome of the run_correlation_analysis call that ran last, if any
    daily_out                    \* configuration and outcome of the run_daily_operations call that ran last, if any

screenerVars == <<sanction_entities, next_entity_id, customers,
                  sanction_screening_results, now, lastOp, screen_call,
                  ingest_call, latest>>
matchVars == <<m_customer, m_entity, m_out>>
corrVars == <<cyber_threat_events, fraud_events, temporal_out>>
engineVars == <<behavioral_out, extract_out, ioc_out, correlation_results,
                engine_now, pass_out, risk_out>>
platformVars == <<onboard_out, profile_out, alerts, store_out, download_out, txn,
                  read_out, history_out, analysis_out, daily_out>>
vars == <<screenerVars, matchVars, corrVars, engineVars, platformVars>>

-----------------------------------------------------------------------------
(* Bounds *)

MaxEntityId == 2      \* rows ever inserted into sanction_entities
MaxBatch == 2         \* entities per _store_sanction_entities call
MaxScreenings == 2    \* rows ever inserted into sanction_screening_results
MaxDay == 2           \* last day of the screener's clock
MaxEvents == 2        \* rows per event table
MaxBehaviorEvents == 3   \* rows per event table for the behavioral correlator
MaxIocEvents == 2        \* rows per event table for the IOC extraction and correlator
MaxPassEvents == 1       \* rows per event table for the correlation pass
MaxStored == 2           \* rows put into correlation_results by single _store_correlation calls
MaxTicks == 1            \* steps of the engine's clock
MaxRiskEvents == 6       \* rows of cyber_threat_events for the risk assessment

-----------------------------------------------------------------------------
(* Strings.  Names and nationalities are TLA+ strings; str.lower() and      *)
(* fuzz.partial_ratio are tabulated on the names used.  Dates of birth are  *)
(* tuples of characters so that len() and [:4] are computed.                *)

Range(f) == { f[i] : i \in DOMAIN f }

Min(a, b) == IF a <= b THEN a ELSE b
Max(a, b) == IF a >= b THEN a ELSE b
Abs(a) == IF a >= 0 THEN a ELSE 0 - a

\* str.lower()
Lower(s) ==
    CASE s = "John Smith" -> "john smith"
      [] s = "John Smyth" -> "john smyth"
      [] s = "US" -> "us"
      [] s = "IR" -> "ir"
      [] OTHER -> s

\* fuzz.partial_ratio(s1, s2) of fuzzywuzzy on lower-cased names: 0 when either
\* string is empty, 100 when the shorter is found in the longer, otherwise
\* 100 * the best SequenceMatcher ratio of the shorter against an equally long
\* window of the longer.  Tabulated with the library's algorithm.
partial_ratio(s1, s2) ==
    IF s1 = "" \/ s2 = "" THEN 0
    ELSE IF s1 = s2 THEN 100
    ELSE CASE s1 = "john smith" /\ s2 = "john smyth" -> 90
           [] s1 = "john smith" /\ s2 = "joan smit"  -> 89
           [] s1 = "john smith" /\ s2 = "xu wei"     -> 33
           [] s1 = "jon smith"  /\ s2 = "john smith" -> 89
           [] s1 = "jon smith"  /\ s2 = "john smyth" -> 78
           [] s1 = "jon smith"  /\ s2 = "joan smit"  -> 89
           [] s1 = "jon smith"  /\ s2 = "xu wei"     -> 33
           [] s1 = "j. smith"   /\ s2 = "john smith" -> 75
           [] s1 = "j. smith"   /\ s2 = "john smyth" -> 62
           [] s1 = "j. smith"   /\ s2 = "joan smit"  -> 67
           [] s1 = "j. smith"   /\ s2 = "xu wei"     -> 33
           [] s1 = "omar"       /\ s2 = "john smith" -> 25
           [] s1 = "omar"       /\ s2 = "john smyth" -> 25
           [] s1 = "omar"       /\ s2 = "joan smit"  -> 50
           [] s1 = "omar"       /\ s2 = "xu wei"     -> 0
           [] OTHER -> 0

Digits == {"0", "1", "2", "3", "4", "5", "6", "7", "8", "9"}

DigitVal(c) ==
    CASE c = "0" -> 0 [] c = "1" -> 1 [] c = "2" -> 2 [] c = "3" -> 3
      [] c = "4" -> 4 [] c = "5" -> 5 [] c = "6" -> 6 [] c = "7" -> 7
      [] c = "8" -> 8 [] c = "9" -> 9

RECURSIVE ToInt(_)
ToInt(s) == IF s = <<>> THEN 0
            ELSE 10 * ToInt(SubSeq(s, 1, Len(s) - 1)) + DigitVal(s[Len(s)])

\* s[:n]
Prefix(s, n) == SubSeq(s, 1, Min(n, Len(s)))

\* A value read back from a column: Python str or Python int.
TextVal(s) == [kind |-> "text", text |-> s, num |-> 0]
IntVal(n) == [kind |-> "int", text |-> <<>>, num |-> n]

\* Column `dob DATE` has NUMERIC affinity: a bound text that is a well-formed
\* integer literal is stored as INTEGER and read back as a Python int; any
\* other text is stored as it is.
SqlDateAffinity(s) ==
    IF Len(s) > 0 /\ \A i \in 1..Len(s) : s[i] \in Digits
    THEN IntVal(ToInt(s))
    ELSE TextVal(s)

\* bool(v) of a str or an int
Truthy(v) == IF v.kind = "int" THEN v.num # 0 ELSE Len(v.text) > 0

-----------------------------------------------------------------------------
(* The matcher *)

NameWeight == 600
NationalityWeight == 200
DobWeight == 200
AdmissionThreshold == 800
NameFieldThreshold == 80

RECURSIVE SumSeq(_)
SumSeq(s) == IF s = <<>> THEN 0 ELSE s[1] + SumSeq(Tail(s))

\* the comparison without the test that both nationalities are present
NationalityScores_NoPresenceCheck(customer_nationality, sanction_nationality) ==
    << IF customer_nationality = sanction_nationality THEN NationalityWeight ELSE 0 >>

\* the nationality block of calculate_match_score: the entries it appends to
\* `scores`
NationalityScores(customer_nationality, sanction_nationality) ==
    IF customer_nationality # "" /\ sanction_nationality # ""
    THEN << IF customer_nationality = sanction_nationality
            THEN NationalityWeight ELSE 0 >>
    ELSE << >>

\* the name block with the weight applied to the distance instead of the ratio
NameScores_Distance(customer_name, sanction_name) ==
    IF customer_name # "" /\ sanction_name # ""
    THEN << ((100 - partial_ratio(customer_name, sanction_name)) * NameWeight) \div 100 >>
    ELSE << >>

\* the name block of calculate_match_score: the entries it appends to `scores`
NameScores(customer_name, sanction_name) ==
    IF customer_name # "" /\ sanction_name # ""
    THEN << (partial_ratio(customer_name, sanction_name) * NameWeight) \div 100 >>
    ELSE << >>

\* calculate_match_score(customer_data, sanction_entity).  customer_data holds
\* Python strings; sanction_entity is a row of sanction_entities as read back.
\* len() of an int raises TypeError.
calculate_match_score(customer_data, sanction_entity) ==
    LET customer_name == Lower(customer_data.name)
        sanction_name == Lower(sanction_entity.name)
        nameScores == NameScores(customer_name, sanction_name)
        natScores == NationalityScores(Lower(customer_data.nationality),
                                       Lower(sanction_entity.nationality))
        customer_dob == customer_data.dob
        sanction_dob == sanction_entity.dob
        dobChecked == Len(customer_dob) > 0 /\ Truthy(sanction_dob)
        customer_year == IF Len(customer_dob) >= 4 THEN Prefix(customer_dob, 4) ELSE << >>
        sanction_year == IF Len(sanction_dob.text) >= 4
                         THEN Prefix(sanction_dob.text, 4) ELSE << >>
        dobScores ==
            IF dobChecked /\ customer_year # << >> /\ sanction_year # << >>
               /\ customer_year = sanction_year
            THEN << DobWeight >> ELSE << >>
        scores == nameScores \o natScores \o dobScores
    IN  IF dobChecked /\ sanction_dob.kind = "int"
        THEN [status |-> "TypeError", score |-> 0]
        ELSE [status |-> "ok",
              score |-> IF scores # << >> THEN SumSeq(scores) ELSE 0]

\* get_matched_fields(customer_data, sanction_entity): the list of matched
\* field names.  Subscripting an int raises TypeError.
get_matched_fields(customer_data, sanction_entity) ==
    LET nameFields ==
            IF partial_ratio(Lower(customer_data.name), Lower(sanction_entity.name))
                 > NameFieldThreshold
            THEN << "name" >> ELSE << >>
        natFields ==
            IF customer_data.nationality # "" /\ sanction_entity.nationality # ""
               /\ Lower(customer_data.nationality) = Lower(sanction_entity.nationality)
            THEN << "nationality" >> ELSE << >>
        customer_dob == customer_data.dob
        sanction_dob == sanction_entity.dob
        dobChecked == Len(customer_dob) > 0 /\ Truthy(sanction_dob)
        dobFields ==
            IF dobChecked /\ Prefix(customer_dob, 4) = Prefix(sanction_dob.text, 4)
            THEN << "dob" >> ELSE << >>
    IN  IF dobChecked /\ sanction_dob.kind = "int"
        THEN [status |-> "TypeError", fields |-> << >>]
        ELSE [status |-> "ok", fields |-> nameFields \o natFields \o dobFields]

-----------------------------------------------------------------------------
(* The watchlist table *)

\* UNIQUE(list_source, name, dob), on the stored values
EntityKey(row) == << row.list_source, row.name, row.dob >>

\* INSERT without conflict resolution: the new row is added next to the old one
InsertOrReplace_NoReplace(rows, row) == Append(rows, row)

\* INSERT OR REPLACE INTO sanction_entities: rows with the new row's key are
\* deleted, the new row is inserted with a fresh rowid.
InsertOrReplace(rows, row) ==
    Append(SelectSeq(rows, LAMBDA r : EntityKey(r) # EntityKey(row)), row)

\* The row _store_sanction_entities binds for one entity of source `source`.
\* The columns entity_type, alias, passport, address and listing_date are
\* written the way nationality is and are represented by it.
EntityRow(entity, source, id) ==
    [id |-> id,
     list_source |-> source,
     name |-> entity.name,
     dob |-> SqlDateAffinity(entity.dob),
     nationality |-> entity.nationality]

\* The loop of _store_sanction_entities over entities[k..], the first of them
\* getting rowid `id`.
RECURSIVE StoreEntities(_, _, _, _, _)
StoreEntities(rows, entities, source, k, id) ==
    IF k > Len(entities) THEN rows
    ELSE StoreEntities(InsertOrReplace(rows, EntityRow(entities[k], source, id)),
                       entities, source, k + 1, id + 1)

\* History of the ingestions: per key the entity ingested last.
LatestRecord(entity, source) ==
    [list_source |-> source, name |-> entity.name,
     dob |-> SqlDateAffinity(entity.dob), nationality |-> entity.nationality]

RECURSIVE RecordLatest(_, _, _, _)
RecordLatest(hist, entities, source, k) ==
    IF k > Len(entities) THEN hist
    ELSE LET rec == LatestRecord(entities[k], source)
         IN  RecordLatest({ h \in hist : EntityKey(h) # EntityKey(rec) } \cup {rec},
                          entities, source, k + 1)

-----------------------------------------------------------------------------
(* Screening *)

\* The loop of perform_screening over the rows of SELECT * FROM
\* sanction_entities, from row k on, `matches` being the list built so far.
\* An exception of the matcher leaves the loop and the call.
RECURSIVE ScanEntities(_, _, _, _)
ScanEntities(customer_data, rows, k, matches) ==
    IF k > Len(rows) THEN [status |-> "returned", matches |-> matches]
    ELSE LET entity == rows[k]
             scored == calculate_match_score(customer_data, entity)
             fields == get_matched_fields(customer_data, entity)
         IN  IF scored.status # "ok"
             THEN [status |-> "raised", matches |-> << >>]
             ELSE IF scored.score >= AdmissionThreshold
             THEN IF fields.status # "ok"
                  THEN [status |-> "raised", matches |-> << >>]
                  ELSE ScanEntities(customer_data, rows, k + 1,
                           Append(matches,
                                  [sanction_entity |-> entity,
                                   match_score |-> scored.score,
                                   matched_fields |-> fields.fields]))
             ELSE ScanEntities(customer_data, rows, k + 1, matches)

perform_screening(customer_data) ==
    ScanEntities(customer_data, sanction_entities, 1, << >>)

\* store_customer_data: INSERT OR REPLACE INTO customers, key customer_id.
\* The columns shown are those taken from customer_data that the pools vary,
\* risk_category with its default customer_data.get('risk_category', 'low'),
\* and the two score columns, which the statement does not name and which
\* get their DEFAULT 0.
store_customer_data(rows, customer_data) ==
    { c \in rows : c.customer_id # customer_data.customer_id }
      \cup { [customer_id |-> customer_data.customer_id,
              name |-> customer_data.name,
              nationality |-> customer_data.nationality,
              risk_category |-> "low",
              cyber_risk_score |-> 0,
              fraud_risk_score |-> 0] }

\* the score of the first match instead of the highest
MaxScore_First(matches) == matches[1].match_score

\* max(m['match_score'] for m in matches)
MaxScore(matches) ==
    CHOOSE s \in { matches[i].match_score : i \in DOMAIN matches } :
        \A i \in DOMAIN matches : matches[i].match_score <= s

\* A store that keeps one row per customer: the earlier rows of the customer
\* are dropped.
store_screening_result_Dedup(rows, customer_data, matches, alert_id, screening_type, time) ==
    Append(SelectSeq(rows, LAMBDA r : r.customer_id # customer_data.customer_id),
           [customer_id |-> customer_data.customer_id,
            customer_name |-> customer_data.name,
            screening_type |-> screening_type,
            screening_date |-> time,
            match_score |-> IF matches # << >> THEN MaxScore(matches) ELSE 0,
            matched_entities |-> matches,
            clari5_alert_id |-> alert_id,
            created_date |-> time])

\* store_screening_result: INSERT INTO sanction_screening_results
store_screening_result(rows, customer_data, matches, alert_id, screening_type, time) ==
    Append(rows,
           [customer_id |-> customer_data.customer_id,
            customer_name |-> customer_data.name,
            screening_type |-> screening_type,
            screening_date |-> time,
            match_score |-> IF matches # << >> THEN MaxScore(matches) ELSE 0,
            matched_entities |-> matches,
            clari5_alert_id |-> alert_id,
            created_date |-> time])

-----------------------------------------------------------------------------
(* Inputs *)

NoDob == << >>
Dob1970 == << "1", "9", "7", "0" >>
Dob19700101 == << "1", "9", "7", "0", "-", "0", "1", "-", "0", "1" >>
Dob19700505 == << "1", "9", "7", "0", "-", "0", "5", "-", "0", "5" >>
Dob19800505 == << "1", "9", "8", "0", "-", "0", "5", "-", "0", "5" >>

Entity(name, nationality, dob) ==
    [name |-> name, nationality |-> nationality, dob |-> dob]

Customer(id, name, nationality, dob) ==
    [customer_id |-> id, name |-> name, nationality |-> nationality, dob |-> dob]

\* Entities handed to _store_sanction_entities.  A missing name is the empty
\* string, the default of entity.get('name', '').
EntityPool ==
    { Entity("john smith", "us", Dob19700101),
      Entity("john smith", "IR", Dob19700101),
      Entity("joan smit", "us", Dob1970),
      Entity("", "us", Dob1970) }

Sources == { "UN", "OFAC" }

\* Customers handed to screen_customer_onboarding
CustomerPool ==
    { Customer("CUST001", "John Smith", "US", Dob19700505),
      Customer("CUST001", "John Smith", "US", NoDob),
      Customer("CUST002", "j. smith", "us", Dob1970) }

Batches == UNION { [1..n -> EntityPool] : n \in 1..MaxBatch }

\* cleanup_old_data(days_old)
CleanupDays == { 1 }

NoCall == [customer |-> Customer("", "", "", NoDob), status |-> "none", matches |-> << >>]
NoIngest == [source |-> "", entities |-> << >>]

-----------------------------------------------------------------------------
(* IntegratedSanctionScreener: the state machine *)

InitScreener ==
    /\ sanction_entities = << >>
    /\ next_entity_id = 1
    /\ customers = {}
    /\ sanction_screening_results = << >>
    /\ now = 0
    /\ lastOp = "init"
    /\ screen_call = NoCall
    /\ ingest_call = NoIngest
    /\ latest = {}

\* _store_sanction_entities(entities, source)
StoreSanctionEntities ==
    \E source \in Sources, entities \in Batches :
        /\ next_entity_id + Len(entities) - 1 <= MaxEntityId
        /\ sanction_entities' =
               StoreEntities(sanction_entities, entities, source, 1, next_entity_id)
        /\ next_entity_id' = next_entity_id + Len(entities)
        /\ latest' = RecordLatest(latest, entities, source, 1)
        /\ ingest_call' = [source |-> source, entities |-> entities]
        /\ lastOp' = "ingest"
        /\ screen_call' = NoCall
        /\ UNCHANGED <<customers, sanction_screening_results, now>>

\* screen_customer_onboarding(customer_data)
ScreenCustomerOnboarding ==
    \E customer_data \in CustomerPool :
        LET out == perform_screening(customer_data)
        IN  /\ Len(sanction_screening_results) < MaxScreenings
            /\ customers' = store_customer_data(customers, customer_data)
            /\ sanction_screening_results' =
                   IF out.status = "returned" /\ out.matches # << >>
                   THEN store_screening_result(sanction_screening_results, customer_data,
                                               out.matches, "SYSTEM_ALERT", "onboarding", now)
                   ELSE sanction_screening_results
            /\ screen_call' = [customer |-> customer_data, status |-> out.status,
                               matches |-> out.matches]
            /\ lastOp' = "screen"
            /\ ingest_call' = NoIngest
            /\ UNCHANGED <<sanction_entities, next_entity_id, now, latest>>

\* cleanup_old_data(days_old)
CleanupOldData ==
    \E days_old \in CleanupDays :
        /\ sanction_screening_results' =
               SelectSeq(sanction_screening_results,
                         LAMBDA r : ~(r.created_date < now - days_old))
        /\ lastOp' = "cleanup"
        /\ screen_call' = NoCall
        /\ ingest_call' = NoIngest
        /\ UNCHANGED <<sanction_entities, next_entity_id, customers, now, latest>>

\* the clock advances
Tick ==
    /\ now < MaxDay
    /\ now' = now + 1
    /\ lastOp' = "tick"
    /\ screen_call' = NoCall
    /\ ingest_call' = NoIngest
    /\ UNCHANGED <<sanction_entities, next_entity_id, customers,
                   sanction_screening_results, latest>>

-----------------------------------------------------------------------------
(* The matcher applied to one customer and one row *)

MatchNames == { "John Smith", "jon smith", "j. smith", "omar", "" }
RowNames == { "john smith", "John Smyth", "joan smit", "xu wei", "" }
MatchNationalities == { "US", "us", "IR", "" }
CustomerDobs == { NoDob, Dob1970, Dob19700505, Dob19800505 }
EntityDobs == { NoDob, Dob1970, Dob19700101, Dob19800505 }

MatchCustomers ==
    { Customer("CUST001", n, c, d) :
        n \in MatchNames, c \in MatchNationalities, d \in CustomerDobs }

\* rows of sanction_entities as SELECT returns them
MatchRows ==
    { EntityRow(Entity(n, c, d), "UN", 1) :
        n \in RowNames, c \in MatchNationalities, d \in EntityDobs }

NoMatchOut == [applied |-> FALSE, status |-> "none", score |-> 0,
               fields_status |-> "none", fields |-> << >>]

IdleMatch ==
    /\ m_customer = Customer("", "", "", NoDob)
    /\ m_entity = EntityRow(Entity("", "", NoDob), "", 0)
    /\ m_out = NoMatchOut

InitMatch ==
    /\ m_customer \in MatchCustomers
    /\ m_entity \in MatchRows
    /\ m_out = NoMatchOut

\* calculate_match_score and get_matched_fields on the pair
ApplyMatcher ==
    /\ ~m_out.applied
    /\ LET scored == calculate_match_score(m_customer, m_entity)
           fields == get_matched_fields(m_customer, m_entity)
       IN  m_out' = [applied |-> TRUE, status |-> scored.status, score |-> scored.score,
                     fields_status |-> fields.status, fields |-> fields.fields]
    /\ UNCHANGED <<m_customer, m_entity>>

-----------------------------------------------------------------------------
(* CyberFraudCorrelationEngine: events and the temporal correlator *)

MinutesPerHour == 60
TemporalWindowHours == 24

EventCustomers == { "CUST001", "CUST002" }

\* detected_at, in minutes: 24 h = 1440, 25 h = 1500
EventTimes == { 0, 1440, 1441, 1500 }

\* the confidence with the gap divided by 24 instead of 48
TemporalConfidence_Div24(minutes) ==
    (Max(1152 - minutes, 432) * 100 + 720) \div 1440

\* Confidence in hundredths.  max(0.8 - time_diff / 48, 0.3) with time_diff in
\* hours is max(2304 - m, 864) / 2880 for a gap of m minutes; round(_, 2) is
\* the nearest hundredth (no gap between two EventTimes is a rounding tie).
TemporalConfidence(minutes) ==
    (Max(2304 - minutes, 864) * 100 + 1440) \div 2880

\* time_diff = abs((fraud_time - cyber_time).total_seconds() / 3600), in minutes
TimeDiff(cyber_event, fraud_event) ==
    Abs(fraud_event.detected_at - cyber_event.detected_at)

\* the gap without abs(): a fraud event before the cyber event gives a
\* negative gap
TemporalPair_NoAbs(cyber_event, fraud_event) ==
    /\ cyber_event.customer_id = fraud_event.customer_id
    /\ fraud_event.detected_at - cyber_event.detected_at
          <= TemporalWindowHours * MinutesPerHour

\* the two tests of the inner loop of _find_temporal_correlations
TemporalPair(cyber_event, fraud_event) ==
    /\ cyber_event.customer_id = fraud_event.customer_id
    /\ TimeDiff(cyber_event, fraud_event) <= TemporalWindowHours * MinutesPerHour

TemporalCorrelation(cyber_event, fraud_event) ==
    [correlation_type |-> "TEMPORAL",
     cyber_event |-> cyber_event,
     fraud_event |-> fraud_event,
     confidence_score |-> TemporalConfidence(TimeDiff(cyber_event, fraud_event)),
     time_diff_minutes |-> TimeDiff(cyber_event, fraud_event),
     customer_id |-> cyber_event.customer_id]

\* the inner loop, over fraud_events[j..]
RECURSIVE TemporalInner(_, _, _, _)
TemporalInner(cyber_event, fraud_list, j, correlations) ==
    IF j > Len(fraud_list) THEN correlations
    ELSE TemporalInner(cyber_event, fraud_list, j + 1,
             IF TemporalPair(cyber_event, fraud_list[j])
             THEN Append(correlations, TemporalCorrelation(cyber_event, fraud_list[j]))
             ELSE correlations)

\* the outer loop, over cyber_events[i..]
RECURSIVE TemporalOuter(_, _, _, _)
TemporalOuter(cyber_list, fraud_list, i, correlations) ==
    IF i > Len(cyber_list) THEN correlations
    ELSE TemporalOuter(cyber_list, fraud_list, i + 1,
             TemporalInner(cyber_list[i], fraud_list, 1, correlations))

\* _find_temporal_correlations(cyber_events, fraud_events)
find_temporal_correlations(cyber_list, fraud_list) ==
    TemporalOuter(cyber_list, fraud_list, 1, << >>)

NoTemporal == [called |-> FALSE, correlations |-> << >>]

NoBehavioral == [called |-> FALSE, correlations |-> << >>]
NoExtract == [status |-> "none", event |-> << >>, iocs |-> << >>]
NoIocOut == [status |-> "none", correlations |-> << >>]
NoPass == [status |-> "none", cyber_rows |-> << >>, fraud_rows |-> << >>,
           correlations |-> << >>, stored_before |-> 0, rerun |-> FALSE]
NoRisk == [status |-> "none", customer_id |-> "", assessment |-> << >>]

NoOnboard == [status |-> "none", customer_id |-> "", matches |-> << >>]
NoProfile == [status |-> "none", customer_id |-> "", results |-> << >>]
NoStore == [status |-> "none", correlations |-> << >>, faults |-> {}, stored_before |-> 0]
NoDownload == [status |-> "none", feeds |-> << >>, success_count |-> 0, before |-> << >>,
               calls |-> 0]
NoTxn == [status |-> "none", committed |-> << >>, source |-> "", entities |-> << >>, k |-> 0]
NoRead == [status |-> "none", rows |-> << >>, txn |-> NoTxn]
NoHistory == [status |-> "none", customer_id |-> "", records |-> << >>]
NoAnalysis == [status |-> "none", via |-> "", correlations |-> << >>,
               total_correlations |-> 0, high_risk_correlations |-> 0,
               alerts_before |-> 0]
NoDaily == [status |-> "none", modules |-> << >>, results |-> {}, ran |-> << >>,
            failed |-> "", alerts_before |-> 0, calls |-> 0]

\* no call of the platform has run
IdlePlatform ==
    /\ onboard_out = NoOnboard
    /\ profile_out = NoProfile
    /\ alerts = << >>
    /\ store_out = NoStore
    /\ download_out = NoDownload
    /\ txn = NoTxn
    /\ read_out = NoRead
    /\ history_out = NoHistory
    /\ analysis_out = NoAnalysis
    /\ daily_out = NoDaily

\* no call of the engine has run, correlation_results is empty
IdleEngine ==
    /\ IdlePlatform
    /\ behavioral_out = NoBehavioral
    /\ extract_out = NoExtract
    /\ ioc_out = NoIocOut
    /\ correlation_results = << >>
    /\ engine_now = 0
    /\ pass_out = NoPass
    /\ risk_out = NoRisk

IdleCorr ==
    /\ cyber_threat_events = << >>
    /\ fraud_events = << >>
    /\ temporal_out = NoTemporal
    /\ IdleEngine

InitCorr == IdleCorr

\* INSERT INTO cyber_threat_events: id INTEGER PRIMARY KEY is the next rowid
InsertCyberEvent ==
    \E customer_id \in EventCustomers, detected_at \in EventTimes :
        /\ Len(cyber_threat_events) < MaxEvents
        /\ cyber_threat_events' =
               Append(cyber_threat_events,
                      [id |-> Len(cyber_threat_events) + 1,
                       customer_id |-> customer_id,
                       detected_at |-> detected_at])
        /\ temporal_out' = NoTemporal
        /\ UNCHANGED fraud_events

\* INSERT INTO fraud_events
InsertFraudEvent ==
    \E customer_id \in EventCustomers, detected_at \in EventTimes :
        /\ Len(fraud_events) < MaxEvents
        /\ fraud_events' =
               Append(fraud_events,
                      [id |-> Len(fraud_events) + 1,
                       customer_id |-> customer_id,
                       detected_at |-> detected_at])
        /\ temporal_out' = NoTemporal
        /\ UNCHANGED cyber_threat_events

\* _find_temporal_correlations on the events of the two tables
FindTemporalCorrelations ==
    /\ temporal_out' = [called |-> TRUE,
                        correlations |->
                            find_temporal_correlations(cyber_threat_events, fraud_events)]
    /\ UNCHANGED <<cyber_threat_events, fraud_events>>

-----------------------------------------------------------------------------
(* Specifications *)

IdleScreener == InitScreener

\* the screener
Init == InitScreener /\ IdleMatch /\ IdleCorr

Next ==
    \/ StoreSanctionEntities /\ UNCHANGED <<matchVars, corrVars, engineVars, platformVars>>
    \/ ScreenCustomerOnboarding /\ UNCHANGED <<matchVars, corrVars, engineVars, platformVars>>
    \/ CleanupOldData /\ UNCHANGED <<matchVars, corrVars, engineVars, platformVars>>
    \/ Tick /\ UNCHANGED <<matchVars, corrVars, engineVars, platformVars>>

Spec == Init /\ [][Next]_vars

\* the matcher
NextMatch == ApplyMatcher /\ UNCHANGED <<screenerVars, corrVars, engineVars, platformVars>>

InitMatchSpec == IdleScreener /\ InitMatch /\ IdleCorr

SpecMatch == InitMatchSpec /\ [][NextMatch]_vars

\* the temporal correlator
NextCorr ==
    \/ InsertCyberEvent /\ UNCHANGED <<screenerVars, matchVars, engineVars, platformVars>>
    \/ InsertFraudEvent /\ UNCHANGED <<screenerVars, matchVars, engineVars, platformVars>>
    \/ FindTemporalCorrelations /\ UNCHANGED <<screenerVars, matchVars, engineVars, platformVars>>

InitCorrSpec == IdleScreener /\ IdleMatch /\ InitCorr

SpecCorr == InitCorrSpec /\ [][NextCorr]_vars

-----------------------------------------------------------------------------
(* The match score as the specification states it *)

RECURSIVE ToDigits(_)
ToDigits(n) ==
    IF n < 10 THEN << CHOOSE c \in Digits : DigitVal(c) = n >>
    ELSE Append(ToDigits(n \div 10), CHOOSE c \in Digits : DigitVal(c) = n % 10)

\* the characters of a stored date of birth
DobText(v) == IF v.kind = "int" THEN ToDigits(v.num) ELSE v.text

NameSimilarity(customer_data, row) ==
    IF customer_data.name = "" \/ row.name = "" THEN 0
    ELSE partial_ratio(Lower(customer_data.name), Lower(row.name))

NationalityEqual(customer_data, row) ==
    /\ customer_data.nationality # ""
    /\ row.nationality # ""
    /\ Lower(customer_data.nationality) = Lower(row.nationality)

DobYearEqual(customer_data, row) ==
    /\ customer_data.dob # << >>
    /\ DobText(row.dob) # << >>
    /\ SubSeq(customer_data.dob, 1, 4) = SubSeq(DobText(row.dob), 1, 4)

WeightedSum(customer_data, row) ==
    6 * NameSimilarity(customer_data, row)
      + (IF NationalityEqual(customer_data, row) THEN 200 ELSE 0)
      + (IF DobYearEqual(customer_data, row) THEN 200 ELSE 0)

-----------------------------------------------------------------------------
(* Claims on the matcher, checked under SpecMatch *)

\* C4: the match score of (subject, entry) is 0.6*nameSimilarity
\* + 0.2*[nationalities equal] + 0.2*[first 4 characters of the dates of birth
\* equal], a missing field contributing 0; it lies in [0,1] and is 1.0 when
\* name, nationality and DOB year are identical.
C4_ScoreIsWeightedSum ==
    m_out.applied =>
        /\ m_out.status = "ok"
        /\ m_out.score = WeightedSum(m_customer, m_entity)
        /\ m_out.score \in 0..1000
        /\ ( /\ m_customer.name # ""
             /\ Lower(m_customer.name) = Lower(m_entity.name)
             /\ NationalityEqual(m_customer, m_entity)
             /\ DobYearEqual(m_customer, m_entity) ) => m_out.score = 1000

\* subject and entry share no field
SharesNoField(customer_data, row) ==
    /\ Lower(customer_data.name) # Lower(row.name)
    /\ Lower(customer_data.nationality) # Lower(row.nationality)
    /\ SubSeq(customer_data.dob, 1, Min(4, Len(customer_data.dob)))
         # SubSeq(DobText(row.dob), 1, Min(4, Len(DobText(row.dob))))

\* C5 as stated: for all subjects and entries sharing no field (different name,
\* different nationality, different DOB year) the match score is 0.0.
C5_NoSharedFieldScoreZero ==
    (m_out.applied /\ SharesNoField(m_customer, m_entity)) =>
        (m_out.status = "ok" /\ m_out.score = 0)

\* C5 amended: for subjects and entries with different nationality and
\* different DOB year the matcher returns 0.6 * nameSimilarity, which is 0.0
\* exactly when a name is missing or the partial ratio of the names is 0; the
\* only other outcome is the TypeError on a stored DOB read back as a number
\* (the case of C4).
C5_NoSharedFieldScoreIsNameShare ==
    ( /\ m_out.applied
      /\ Lower(m_customer.nationality) # Lower(m_entity.nationality)
      /\ SubSeq(m_customer.dob, 1, Min(4, Len(m_customer.dob)))
           # SubSeq(DobText(m_entity.dob), 1, Min(4, Len(DobText(m_entity.dob)))) ) =>
        \/ /\ m_out.status = "TypeError"
           /\ m_entity.dob.kind = "int"
           /\ m_customer.dob # << >>
        \/ /\ m_out.status = "ok"
           /\ m_out.score = 6 * NameSimilarity(m_customer, m_entity)
           /\ (m_out.score = 0) <=> (NameSimilarity(m_customer, m_entity) = 0)

\* C5 witness: the matcher has scored a pair that shares no field and whose
\* names are similar, and the score is not 0
C5_Witness ==
    /\ m_out.applied
    /\ SharesNoField(m_customer, m_entity)
    /\ m_out.status = "ok"
    /\ m_out.score = 534

\* one more field of the subject agrees with the entry, the others are the same
AgreesMore(c2, c1, row) ==
    \/ /\ c2.name = c1.name /\ c2.dob = c1.dob
       /\ NationalityEqual(c2, row) /\ ~NationalityEqual(c1, row)
    \/ /\ c2.name = c1.name /\ c2.nationality = c1.nationality
       /\ DobYearEqual(c2, row) /\ ~DobYearEqual(c1, row)
    \/ /\ c2.nationality = c1.nationality /\ c2.dob = c1.dob
       /\ NameSimilarity(c2, row) > NameSimilarity(c1, row)

\* C6: for a fixed entry, changing the subject so that one more field agrees
\* with the entry while the others stay the same never decreases the score.
C6_Monotone ==
    (m_out.applied /\ m_out.status = "ok") =>
        \A c2 \in MatchCustomers :
            AgreesMore(c2, m_customer, m_entity) =>
                /\ calculate_match_score(c2, m_entity).status = "ok"
                /\ calculate_match_score(c2, m_entity).score >= m_out.score

AllMissing(r) == r.name = "" /\ r.nationality = "" /\ DobText(r.dob) = << >>

-----------------------------------------------------------------------------
(* Claims on the screener, checked under Spec *)

\* the rows an exhaustive scan admits for the customer
Admitted(customer_data) ==
    { r \in Range(sanction_entities) : WeightedSum(customer_data, r) >= 800 }

Returned(call) == { call.matches[i].sanction_entity : i \in DOMAIN call.matches }

\* C1: for every subject and every content of the watchlist, screening returns
\* exactly the entries whose match score is >= 0.8: none below the threshold,
\* none at or above it omitted.
C1_ExactlyAdmitted ==
    lastOp = "screen" =>
        /\ screen_call.status = "returned"
        /\ Returned(screen_call) = Admitted(screen_call.customer)
        /\ Len(screen_call.matches) = Cardinality(Admitted(screen_call.customer))

\* C2: the returned list is ranked: for positions i < j the score of result i
\* is >= the score of result j, whatever the order of the stored entries.
C2_Ranked ==
    lastOp = "screen" =>
        \A i, j \in DOMAIN screen_call.matches :
            i < j => screen_call.matches[i].match_score >= screen_call.matches[j].match_score

\* C3: after any sequence of ingestions the watchlist holds at most one entry
\* per key (source, name, dateOfBirth), and that entry carries the values of the
\* most recent ingestion of the key.
C3_LastWriteWins ==
    /\ \A i, j \in DOMAIN sanction_entities :
           EntityKey(sanction_entities[i]) = EntityKey(sanction_entities[j]) => i = j
    /\ { [list_source |-> r.list_source, name |-> r.name, dob |-> r.dob,
          nationality |-> r.nationality] : r \in Range(sanction_entities) } = latest

\* C3 witness: a key has been ingested again with another nationality, and the
\* table holds fewer rows than were inserted
C3_Witness ==
    /\ lastOp = "ingest"
    /\ Len(ingest_call.entities) = 1
    /\ Len(sanction_entities) = 1
    /\ next_entity_id = 3
    /\ sanction_entities[1].id = 2
    /\ sanction_entities[1].nationality = "IR"
    /\ sanction_entities[1].name = "john smith"

C9_ResultsPersisted ==
    [][ lastOp' = "screen" =>
          IF screen_call'.matches # << >>
          THEN /\ Len(sanction_screening_results') = Len(sanction_screening_results) + 1
               /\ SubSeq(sanction_screening_results', 1, Len(sanction_screening_results))
                     = sanction_screening_results
               /\ LET row == sanction_screening_results'[Len(sanction_screening_results')]
                  IN  /\ row.customer_id = screen_call'.customer.customer_id
                      /\ row.matched_entities = screen_call'.matches
                      /\ row.screening_date = now
          ELSE sanction_screening_results' = sanction_screening_results ]_vars

\* C9 witness: the same customer has been screened twice with results, and both
\* rows are in the table
C9_Witness ==
    /\ lastOp = "screen"
    /\ Len(sanction_screening_results) = 2
    /\ sanction_screening_results[1].customer_id = sanction_screening_results[2].customer_id
    /\ sanction_screening_results[1].screening_date < sanction_screening_results[2].screening_date
    /\ sanction_screening_results[2].matched_entities = screen_call.matches

-----------------------------------------------------------------------------
(* Claims on the temporal correlator, checked under SpecCorr *)

Gap(cyber_event, fraud_event) ==
    IF fraud_event.detected_at >= cyber_event.detected_at
    THEN fraud_event.detected_at - cyber_event.detected_at
    ELSE cyber_event.detected_at - fraud_event.detected_at

EmittedFor(cyber_event, fraud_event) ==
    { k \in DOMAIN temporal_out.correlations :
        /\ temporal_out.correlations[k].cyber_event = cyber_event
        /\ temporal_out.correlations[k].fraud_event = fraud_event }

\* C10: for every (cyber event, fraud event) pair exactly one TEMPORAL
\* correlation is emitted iff both events have the same customer and the
\* absolute gap between them is <= 24 hours; otherwise none is emitted.
C10_TemporalPairs ==
    temporal_out.called =>
        /\ \A c \in Range(cyber_threat_events), f \in Range(fraud_events) :
               Cardinality(EmittedFor(c, f)) =
                   IF c.customer_id = f.customer_id /\ Gap(c, f) <= 24 * 60
                   THEN 1 ELSE 0
        /\ \A k \in DOMAIN temporal_out.correlations :
               /\ temporal_out.correlations[k].correlation_type = "TEMPORAL"
               /\ temporal_out.correlations[k].cyber_event \in Range(cyber_threat_events)
               /\ temporal_out.correlations[k].fraud_event \in Range(fraud_events)

\* C10 witness: a pair at exactly 24 hours was emitted, a pair at 25 hours of
\* the same customer was not, and neither was a pair of different customers
\* within 24 hours; the fraud event of the emitted pair precedes the cyber event
C10_Witness ==
    /\ temporal_out.called
    /\ \E c \in Range(cyber_threat_events), f \in Range(fraud_events) :
           /\ c.customer_id = f.customer_id
           /\ c.detected_at - f.detected_at = 1440
           /\ EmittedFor(c, f) # {}
    /\ \E c \in Range(cyber_threat_events), f \in Range(fraud_events) :
           /\ c.customer_id = f.customer_id
           /\ Gap(c, f) = 1500
           /\ EmittedFor(c, f) = {}
    /\ \E c \in Range(cyber_threat_events), f \in Range(fraud_events) :
           /\ c.customer_id # f.customer_id
           /\ Gap(c, f) <= 1440
           /\ EmittedFor(c, f) = {}

\* C11 as stated: the confidence of every emitted TEMPORAL correlation equals
\* max(0.8 - gapHours / 48, 0.3) exactly.
C11_ConfidenceExact ==
    temporal_out.called =>
        \A k \in DOMAIN temporal_out.correlations :
            LET r == temporal_out.correlations[k] IN
            r.confidence_score * 2880 =
                Max(2304 - Gap(r.cyber_event, r.fraud_event), 864) * 100

\* C11 amended: the confidence of every emitted TEMPORAL correlation is
\* max(0.8 - gapHours / 48, 0.3) rounded to two decimals (within half a
\* hundredth of it): 0.8 at gap 0, never higher for a larger gap, never
\* below 0.3.
C11_ConfidenceRounded ==
    temporal_out.called =>
        /\ \A k \in DOMAIN temporal_out.correlations :
               LET r == temporal_out.correlations[k]
                   gap == Gap(r.cyber_event, r.fraud_event)
               IN  /\ Abs(r.confidence_score * 2880 - Max(2304 - gap, 864) * 100) <= 1440
                   /\ gap = 0 => r.confidence_score = 80
                   /\ r.confidence_score >= 30
                   /\ r.confidence_score <= 80
        /\ \A k1, k2 \in DOMAIN temporal_out.correlations :
               LET r1 == temporal_out.correlations[k1]
                   r2 == temporal_out.correlations[k2]
               IN  Gap(r1.cyber_event, r1.fraud_event) <= Gap(r2.cyber_event, r2.fraud_event)
                       => r1.confidence_score >= r2.confidence_score

\* C11 witness: one pass of the correlator emitted a pair at gap 0 with 0.80,
\* a pair at one hour with 0.78 (0.7792 rounded) and a pair at 24 hours
\* with 0.30
C11_Witness ==
    /\ temporal_out.called
    /\ \E k0, k1, k2 \in DOMAIN temporal_out.correlations :
           /\ temporal_out.correlations[k0].time_diff_minutes = 0
           /\ temporal_out.correlations[k0].confidence_score = 80
           /\ temporal_out.correlations[k1].time_diff_minutes = 60
           /\ temporal_out.correlations[k1].confidence_score = 78
           /\ temporal_out.correlations[k2].time_diff_minutes = 1440
           /\ temporal_out.correlations[k2].confidence_score = 30

-----------------------------------------------------------------------------
(* CyberFraudCorrelationEngine: rows of the event tables with the columns   *)
(* the engine reads, and the behavioral correlator                          *)

\* a TEXT column holding a string, as the sequence of its whitespace-separated
\* tokens, or NULL (None in Python)
Text(tokens) == [kind |-> "str", tokens |-> tokens]
NullText == [kind |-> "null", tokens |-> << >>]

\* the iocs column: NULL, or a string tagged with what json.loads makes of it
\* ("invalid": not JSON; "list", "string", "object": a JSON array, string or
\* object, with its elements, characters or keys as items; "number")
NoIocs == [kind |-> "null", items |-> << >>]
JsonText(kind, items) == [kind |-> kind, items |-> items]

\* a Python value that can be an IOC: a str, or what a JSON array can hold
\* besides ("int", "list")
StrVal(s) == [t |-> "str", v |-> s]
JsonNumber(s) == [t |-> "int", v |-> s]
JsonArray(s) == [t |-> "list", v |-> s]

\* a row of cyber_threat_events as a dict
CyberRow(id, customer_id, event_data, severity, detected_at, iocs) ==
    [id |-> id, customer_id |-> customer_id, event_data |-> event_data,
     severity |-> severity, detected_at |-> detected_at, iocs |-> iocs]

\* a row of fraud_events as a dict: the table has no event_data and no iocs
\* column
FraudRow(id, customer_id, transaction_data, detected_at) ==
    [id |-> id, customer_id |-> customer_id,
     transaction_data |-> transaction_data, detected_at |-> detected_at]

\* len(customer_cyber_events.get(customer_id, []))
CountOf(events, customer_id) ==
    Cardinality({ i \in DOMAIN events : events[i].customer_id = customer_id })

\* set(customer_cyber_events.keys()) | set(customer_fraud_events.keys())
CustomerKeys(cyber_list, fraud_list) ==
    { cyber_list[i].customer_id : i \in DOMAIN cyber_list }
        \cup { fraud_list[i].customer_id : i \in DOMAIN fraud_list }

\* the orders in which a for loop can visit a set
IterationOrders(S) ==
    { o \in [1..Cardinality(S) -> S] : Range(o) = S }

\* the confidence with the counts added instead of multiplied
BehavioralConfidence_Additive(cyber_count, fraud_count) ==
    Min(30 + (cyber_count + fraud_count) * 10, 90)

\* round(min(0.3 + (cyber_count * fraud_count * 0.1), 0.9), 2), in hundredths
BehavioralConfidence(cyber_count, fraud_count) ==
    Min(30 + cyber_count * fraud_count * 10, 90)

BehavioralCorrelation(customer_id, cyber_count, fraud_count) ==
    [correlation_type |-> "BEHAVIORAL",
     customer_id |-> customer_id,
     cyber_event_count |-> cyber_count,
     fraud_event_count |-> fraud_count,
     confidence_score |-> BehavioralConfidence(cyber_count, fraud_count)]

\* the loop over the customer ids, visited in the order given
RECURSIVE BehavioralLoop(_, _, _, _, _)
BehavioralLoop(order, i, cyber_list, fraud_list, correlations) ==
    IF i > Len(order) THEN correlations
    ELSE LET cyber_count == CountOf(cyber_list, order[i])
             fraud_count == CountOf(fraud_list, order[i])
         IN  BehavioralLoop(order, i + 1, cyber_list, fraud_list,
                 IF cyber_count > 0 /\ fraud_count > 0
                 THEN Append(correlations,
                             BehavioralCorrelation(order[i], cyber_count, fraud_count))
                 ELSE correlations)

\* _find_behavioral_correlations(cyber_events, fraud_events)
find_behavioral_correlations(cyber_list, fraud_list, order) ==
    BehavioralLoop(order, 1, cyber_list, fraud_list, << >>)

\* INSERT INTO cyber_threat_events, for the behavioral correlator
BehaviorInsertCyberEvent ==
    \E customer_id \in EventCustomers :
        /\ Len(cyber_threat_events) < MaxBehaviorEvents
        /\ cyber_threat_events' =
               Append(cyber_threat_events,
                      CyberRow(Len(cyber_threat_events) + 1, customer_id,
                               Text(<< >>), "HIGH", 0, NoIocs))
        /\ behavioral_out' = NoBehavioral
        /\ UNCHANGED fraud_events

\* INSERT INTO fraud_events, for the behavioral correlator
BehaviorInsertFraudEvent ==
    \E customer_id \in EventCustomers :
        /\ Len(fraud_events) < MaxBehaviorEvents
        /\ fraud_events' =
               Append(fraud_events,
                      FraudRow(Len(fraud_events) + 1, customer_id, Text(<< >>), 0))
        /\ behavioral_out' = NoBehavioral
        /\ UNCHANGED cyber_threat_events

\* _find_behavioral_correlations on the events of the two tables; the loop
\* iterates a set of customer ids, whose order is not fixed
FindBehavioralCorrelations ==
    \E order \in IterationOrders(CustomerKeys(cyber_threat_events, fraud_events)) :
        /\ behavioral_out' =
               [called |-> TRUE,
                correlations |->
                    find_behavioral_correlations(cyber_threat_events, fraud_events, order)]
        /\ UNCHANGED <<cyber_threat_events, fraud_events>>

behaviorFrame == <<temporal_out, extract_out, ioc_out, correlation_results,
                   engine_now, pass_out, risk_out>>

NextBehavior ==
    \/ BehaviorInsertCyberEvent /\ UNCHANGED <<screenerVars, matchVars, behaviorFrame, platformVars>>
    \/ BehaviorInsertFraudEvent /\ UNCHANGED <<screenerVars, matchVars, behaviorFrame, platformVars>>
    \/ FindBehavioralCorrelations /\ UNCHANGED <<screenerVars, matchVars, behaviorFrame, platformVars>>

InitBehaviorSpec == IdleScreener /\ IdleMatch /\ IdleCorr

SpecBehavior == InitBehaviorSpec /\ [][NextBehavior]_vars

-----------------------------------------------------------------------------
(* Claims on the behavioral correlator, checked under SpecBehavior *)

BehavioralFor(customer_id) ==
    { k \in DOMAIN behavioral_out.correlations :
        behavioral_out.correlations[k].customer_id = customer_id }

CyberCount(customer_id) ==
    Cardinality({ i \in DOMAIN cyber_threat_events :
                    cyber_threat_events[i].customer_id = customer_id })

FraudCount(customer_id) ==
    Cardinality({ i \in DOMAIN fraud_events :
                    fraud_events[i].customer_id = customer_id })

\* C12: per subject exactly one BEHAVIORAL correlation is emitted iff the
\* subject has at least one cyber event and at least one fraud event, with
\* confidence min(0.3 + c * f * 0.1, 0.9) for c cyber and f fraud events
\* (0.4 for 1 x 1, 0.9 for 2 x 3); a subject with events in one stream only
\* gets none.
C12_BehavioralPerSubject ==
    behavioral_out.called =>
        /\ \A customer_id \in EventCustomers :
               LET c == CyberCount(customer_id)
                   f == FraudCount(customer_id)
               IN  IF c >= 1 /\ f >= 1
                   THEN /\ Cardinality(BehavioralFor(customer_id)) = 1
                        /\ \A k \in BehavioralFor(customer_id) :
                               LET conf == behavioral_out.correlations[k].confidence_score
                               IN  /\ conf = (IF 30 + c * f * 10 < 90
                                              THEN 30 + c * f * 10 ELSE 90)
                                   /\ (c = 1 /\ f = 1) => conf = 40
                                   /\ (c = 2 /\ f = 3) => conf = 90
                   ELSE BehavioralFor(customer_id) = {}
        /\ \A k \in DOMAIN behavioral_out.correlations :
               /\ behavioral_out.correlations[k].correlation_type = "BEHAVIORAL"
               /\ behavioral_out.correlations[k].customer_id \in EventCustomers

\* C12 witness: a subject with 2 cyber and 3 fraud events got one correlation
\* of confidence 0.9, a subject with a cyber event only got none
C12_Witness ==
    /\ behavioral_out.called
    /\ \E a, b \in EventCustomers :
           /\ CyberCount(a) = 2 /\ FraudCount(a) = 3
           /\ \E k \in BehavioralFor(a) :
                  behavioral_out.correlations[k].confidence_score = 90
           /\ CyberCount(b) = 1 /\ FraudCount(b) = 0
           /\ BehavioralFor(b) = {}

-----------------------------------------------------------------------------
(* CyberFraudCorrelationEngine: IOC extraction and the IOC correlator *)

\* tokens of the free text; re.findall of the three patterns is tabulated on
\* them: the IP pattern matches the dotted quad, the domain pattern the
\* label.tld token, the hash pattern the 32 hex digits, none matches "login"
IpToken == "192.168.1.100"
DomainToken == "phishy.com"
HashToken == "d41d8cd98f00b204e9800998ecf8427e"
PlainToken == "login"

\* re.findall(r'\b(?:\d{1,3}\.){3}\d{1,3}\b', token)
IpMatches(token) == IF token = IpToken THEN << token >> ELSE << >>

\* re.findall(r'[a-zA-Z0-9]+[.][a-zA-Z]{2,}(?:\.[a-zA-Z]{2,})?', token)
DomainMatches(token) == IF token = DomainToken THEN << token >> ELSE << >>

\* re.findall(r'\b[a-fA-F0-9]{32,128}\b', token)
HashMatches(token) == IF token = HashToken THEN << token >> ELSE << >>

\* the matches of one of the three patterns in a token
PatternMatches(pattern, token) ==
    IF pattern = "ip" THEN IpMatches(token)
    ELSE IF pattern = "domain" THEN DomainMatches(token)
    ELSE HashMatches(token)

\* re.findall over the whole text: the matches of tokens[i..], in order
RECURSIVE FindAll(_, _, _)
FindAll(pattern, tokens, i) ==
    IF i > Len(tokens) THEN << >>
    ELSE PatternMatches(pattern, tokens[i]) \o FindAll(pattern, tokens, i + 1)

StrVals(strings) == [i \in DOMAIN strings |-> StrVal(strings[i])]

\* event.get(key, ''): the value of the key, '' when the dict has no such key
EventGet(event, key, default) ==
    IF key \in DOMAIN event THEN event[key] ELSE default

\* the IOCs of the event_data field: nothing unless it is a str
EventDataIocs(event) ==
    LET event_data == EventGet(event, "event_data", Text(<< >>))
    IN  IF event_data.kind = "str"
        THEN StrVals(FindAll("ip", event_data.tokens, 1)
                     \o FindAll("domain", event_data.tokens, 1)
                     \o FindAll("hash", event_data.tokens, 1))
        ELSE << >>

\* the IOCs of the iocs field: iocs.extend(json.loads(iocs_field)) adds the
\* elements of an array, the characters of a string, the keys of an object;
\* json.loads raising, or extend raising on a number, is swallowed
IocsFieldIocs(event) ==
    LET iocs_field == EventGet(event, "iocs", JsonText("empty", << >>))
    IN  IF iocs_field.kind \in { "list", "string", "object" }
        THEN iocs_field.items
        ELSE << >>

\* the list iocs before the final list(set(iocs))
CollectIocs(event) == EventDataIocs(event) \o IocsFieldIocs(event)

\* set(iocs) raises TypeError: unhashable type on a list (or dict) element
Hashable(value) == value.t # "list"

ExtractRaises(event) ==
    \E i \in DOMAIN CollectIocs(event) : ~Hashable(CollectIocs(event)[i])

\* set(self._extract_iocs_from_event(event))
ExtractedSet(event) == Range(CollectIocs(event))

\* _extract_iocs_from_event(event): list(set(iocs)) lists the distinct
\* elements in the order given
extract_iocs_from_event(event, order) ==
    IF ExtractRaises(event)
    THEN [status |-> "raised", event |-> event, iocs |-> << >>]
    ELSE [status |-> "returned", event |-> event, iocs |-> order]

\* round(min(0.5 + (len(common_iocs) * 0.2), 0.9), 2), in hundredths
IocConfidence(n) == Min(50 + n * 20, 90)

IocCorrelation(cyber_event, fraud_event, common_iocs) ==
    [correlation_type |-> "IOC_BASED",
     cyber_event |-> cyber_event,
     fraud_event |-> fraud_event,
     confidence_score |-> IocConfidence(Cardinality(common_iocs)),
     shared_iocs |-> common_iocs,
     customer_id |-> EventGet(cyber_event, "customer_id", "Unknown")]

IocRaised == [status |-> "raised", correlations |-> << >>]

\* the inner loop, over fraud_events[j..]; an extraction that raises ends
\* the call
RECURSIVE IocInner(_, _, _, _)
IocInner(cyber_event, fraud_list, j, out) ==
    IF out.status = "raised" \/ j > Len(fraud_list) THEN out
    ELSE IF ExtractRaises(fraud_list[j]) THEN IocRaised
    ELSE LET common_iocs == ExtractedSet(cyber_event) \cap ExtractedSet(fraud_list[j])
         IN  IocInner(cyber_event, fraud_list, j + 1,
                 IF common_iocs # {}
                 THEN [out EXCEPT !.correlations =
                          Append(@, IocCorrelation(cyber_event, fraud_list[j], common_iocs))]
                 ELSE out)

\* the outer loop, over cyber_events[i..]
RECURSIVE IocOuter(_, _, _, _)
IocOuter(cyber_list, fraud_list, i, out) ==
    IF out.status = "raised" \/ i > Len(cyber_list) THEN out
    ELSE IF ExtractRaises(cyber_list[i]) THEN IocRaised
    ELSE IocOuter(cyber_list, fraud_list, i + 1,
                  IocInner(cyber_list[i], fraud_list, 1, out))

\* _find_ioc_correlations(cyber_events, fraud_events)
find_ioc_correlations(cyber_list, fraud_list) ==
    IocOuter(cyber_list, fraud_list, 1,
             [status |-> "returned", correlations |-> << >>])

IocCustomers == { "CUST001" }

\* (event_data, iocs) of the cyber events
CyberIocContents ==
    { <<Text(<<PlainToken, IpToken, DomainToken, IpToken>>), NoIocs>>,
      <<Text(<<HashToken>>), JsonText("list", <<StrVal(IpToken), StrVal(HashToken)>>)>>,
      <<Text(<<IpToken>>), JsonText("invalid", << >>)>>,
      <<Text(<<IpToken>>), JsonText("number", << >>)>>,
      <<Text(<<IpToken>>), JsonText("string", <<StrVal("a"), StrVal("b")>>)>>,
      <<Text(<<IpToken>>), JsonText("list", <<JsonNumber("7")>>)>>,
      <<Text(<<IpToken>>), JsonText("list", <<JsonArray("10.0.0.1")>>)>>,
      <<NullText, NoIocs>> }

\* transaction_data of the fraud events
FraudIocContents == { Text(<<IpToken>>), Text(<<PlainToken>>) }

\* INSERT INTO cyber_threat_events, for the IOC extraction
IocInsertCyberEvent ==
    \E customer_id \in IocCustomers, content \in CyberIocContents :
        /\ Len(cyber_threat_events) < MaxIocEvents
        /\ cyber_threat_events' =
               Append(cyber_threat_events,
                      CyberRow(Len(cyber_threat_events) + 1, customer_id,
                               content[1], "HIGH", 0, content[2]))
        /\ extract_out' = NoExtract
        /\ ioc_out' = NoIocOut
        /\ UNCHANGED fraud_events

\* INSERT INTO fraud_events, for the IOC extraction
IocInsertFraudEvent ==
    \E customer_id \in IocCustomers, transaction_data \in FraudIocContents :
        /\ Len(fraud_events) < MaxIocEvents
        /\ fraud_events' =
               Append(fraud_events,
                      FraudRow(Len(fraud_events) + 1, customer_id, transaction_data, 0))
        /\ extract_out' = NoExtract
        /\ ioc_out' = NoIocOut
        /\ UNCHANGED cyber_threat_events

\* _extract_iocs_from_event on an event of one of the tables
ExtractIocsFromEvent ==
    \E event \in Range(cyber_threat_events) \cup Range(fraud_events) :
        \E order \in IterationOrders(ExtractedSet(event)) :
            /\ extract_out' = extract_iocs_from_event(event, order)
            /\ ioc_out' = NoIocOut
            /\ UNCHANGED <<cyber_threat_events, fraud_events>>

\* _find_ioc_correlations on the events of the two tables
FindIocCorrelations ==
    /\ ioc_out' = find_ioc_correlations(cyber_threat_events, fraud_events)
    /\ extract_out' = NoExtract
    /\ UNCHANGED <<cyber_threat_events, fraud_events>>

iocFrame == <<temporal_out, behavioral_out, correlation_results, engine_now,
              pass_out, risk_out>>

NextIoc ==
    \/ IocInsertCyberEvent /\ UNCHANGED <<screenerVars, matchVars, iocFrame, platformVars>>
    \/ IocInsertFraudEvent /\ UNCHANGED <<screenerVars, matchVars, iocFrame, platformVars>>
    \/ ExtractIocsFromEvent /\ UNCHANGED <<screenerVars, matchVars, iocFrame, platformVars>>
    \/ FindIocCorrelations /\ UNCHANGED <<screenerVars, matchVars, iocFrame, platformVars>>

InitIocSpec == IdleScreener /\ IdleMatch /\ IdleCorr

SpecIoc == InitIocSpec /\ [][NextIoc]_vars

-----------------------------------------------------------------------------
(* Claims on the IOC extraction and the IOC correlator, checked under SpecIoc *)

\* the IOCs of the free text of an event: its IP, domain and hash tokens
FreeTextIocs(event) ==
    IF "event_data" \in DOMAIN event /\ event.event_data.kind = "str"
    THEN { StrVal(token) :
             token \in Range(event.event_data.tokens)
                           \cap { IpToken, DomainToken, HashToken } }
    ELSE {}

\* the structured IOC field when it is a list of strings, empty otherwise
StructuredIocs(event) ==
    IF /\ "iocs" \in DOMAIN event
       /\ event.iocs.kind = "list"
       /\ \A i \in DOMAIN event.iocs.items : event.iocs.items[i].t = "str"
    THEN Range(event.iocs.items)
    ELSE {}

IocSet(event) == FreeTextIocs(event) \cup StructuredIocs(event)

\* C18: IOC extraction never raises and returns a duplicate-free collection:
\* the IOCs of the free text together with those of the structured field,
\* a structured field that is not parseable, or parseable but not a list of
\* strings, counting as empty.
C18_ExtractionTotal ==
    extract_out.status # "none" =>
        /\ extract_out.status = "returned"
        /\ \A i, j \in DOMAIN extract_out.iocs :
               i # j => extract_out.iocs[i] # extract_out.iocs[j]
        /\ Range(extract_out.iocs) = IocSet(extract_out.event)

IocEmittedFor(cyber_event, fraud_event) ==
    { k \in DOMAIN ioc_out.correlations :
        /\ ioc_out.correlations[k].cyber_event = cyber_event
        /\ ioc_out.correlations[k].fraud_event = fraud_event }

\* C13: the IOC correlator returns, for every (cyber event, fraud event)
\* pair whatever their subjects, exactly one IOC correlation iff the IOC sets
\* of the two events intersect, with confidence min(0.5 + n * 0.2, 0.9) for
\* n shared IOCs, and none for a pair without a shared IOC.
C13_IocPairs ==
    ioc_out.status # "none" =>
        /\ ioc_out.status = "returned"
        /\ \A c \in Range(cyber_threat_events), f \in Range(fraud_events) :
               LET n == Cardinality(IocSet(c) \cap IocSet(f))
               IN  /\ Cardinality(IocEmittedFor(c, f)) = IF n > 0 THEN 1 ELSE 0
                   /\ \A k \in IocEmittedFor(c, f) :
                          ioc_out.correlations[k].confidence_score =
                              IF 50 + n * 20 < 90 THEN 50 + n * 20 ELSE 90

-----------------------------------------------------------------------------
(* CyberFraudCorrelationEngine: the correlation pass analyze_recent_activity *)
(* and the table correlation_results                                        *)

MinutesPerDay == 1440
WindowDays == 7

\* one step of the clock: 8 days
TickMinutes == 8 * MinutesPerDay

PassCustomers == { "CUST001" }

\* detected_at of an inserted event, relative to the clock: now, an hour
\* ago, and a day ahead of the clock
PassOffsets == { 0, 0 - 60, MinutesPerDay }

\* WHERE detected_at > cutoff_date, cutoff_date = now - timedelta(days=days):
\* the rows selected
RecentRows(table, at, days) ==
    { table[i] : i \in { j \in DOMAIN table :
                           table[j].detected_at > at - days * MinutesPerDay } }

\* ORDER BY detected_at DESC: the orders the rows can be returned in
OrderedDesc(rows) ==
    { o \in IterationOrders(rows) :
        \A i, j \in DOMAIN o : i < j => o[i].detected_at >= o[j].detected_at }

\* [dict(row) for row in cursor.fetchall()]: the connection has no
\* row_factory, each row is a tuple and dict(row) raises TypeError
RowsToDicts(rows) ==
    IF rows = << >>
    THEN [status |-> "returned", dicts |-> << >>]
    ELSE [status |-> "raised", dicts |-> << >>]

\* json.dumps(correlation.get('risk_factors', [])): the figures the risk
\* factors of the correlation are written from
RiskFactors(correlation) ==
    IF correlation.correlation_type = "TEMPORAL"
    THEN << correlation.time_diff_minutes >>
    ELSE IF correlation.correlation_type = "BEHAVIORAL"
    THEN << correlation.cyber_event_count, correlation.fraud_event_count >>
    ELSE << Cardinality(correlation.shared_iocs) >>

\* _store_correlation with INSERT OR REPLACE on the correlation type: the
\* earlier records of that type are removed
store_correlation_Replace(results, correlation, at) ==
    Append(SelectSeq(results,
                     LAMBDA r : r.correlation_type # correlation.correlation_type),
           [id |-> Len(results) + 1,
            correlation_type |-> correlation.correlation_type,
            confidence_score |-> correlation.confidence_score,
            correlation_factors |-> RiskFactors(correlation),
            created_at |-> at,
            status |-> "NEW"])

\* _store_correlation(correlation): INSERT INTO correlation_results; the
\* columns cyber_event_id and fraud_event_id are not written
store_correlation(results, correlation, at) ==
    Append(results,
           [id |-> Len(results) + 1,
            correlation_type |-> correlation.correlation_type,
            confidence_score |-> correlation.confidence_score,
            correlation_factors |-> RiskFactors(correlation),
            created_at |-> at,
            status |-> "NEW"])

\* for correlation in correlations: self._store_correlation(correlation)
RECURSIVE StoreAll(_, _, _, _)
StoreAll(results, correlations, k, at) ==
    IF k > Len(correlations) THEN results
    ELSE StoreAll(store_correlation(results, correlations[k], at),
                  correlations, k + 1, at)

\* analyze_recent_activity given the rows the two queries select: the
\* conversion of the cyber rows raises before the fraud query is made
analyze_recent_activity(cyber_rows, fraud_rows, order) ==
    LET cyber == RowsToDicts(cyber_rows)
        fraud == RowsToDicts(fraud_rows)
        ioc == find_ioc_correlations(cyber.dicts, fraud.dicts)
    IN  IF cyber.status = "raised"
        THEN [status |-> "raised", cyber_rows |-> cyber_rows,
              fraud_rows |-> << >>, correlations |-> << >>]
        ELSE IF fraud.status = "raised" \/ ioc.status = "raised"
        THEN [status |-> "raised", cyber_rows |-> cyber_rows,
              fraud_rows |-> fraud_rows, correlations |-> << >>]
        ELSE [status |-> "returned", cyber_rows |-> cyber_rows,
              fraud_rows |-> fraud_rows,
              correlations |->
                  find_temporal_correlations(cyber.dicts, fraud.dicts)
                  \o find_behavioral_correlations(cyber.dicts, fraud.dicts, order)
                  \o ioc.correlations]

\* INSERT INTO cyber_threat_events, for the pass
PassInsertCyberEvent ==
    \E customer_id \in PassCustomers, offset \in PassOffsets :
        /\ Len(cyber_threat_events) < MaxPassEvents
        /\ cyber_threat_events' =
               Append(cyber_threat_events,
                      CyberRow(Len(cyber_threat_events) + 1, customer_id,
                               Text(<<IpToken>>), "HIGH", engine_now + offset, NoIocs))
        /\ pass_out' = NoPass
        /\ UNCHANGED <<fraud_events, correlation_results, engine_now>>

\* INSERT INTO fraud_events, for the pass
PassInsertFraudEvent ==
    \E customer_id \in PassCustomers, offset \in PassOffsets :
        /\ Len(fraud_events) < MaxPassEvents
        /\ fraud_events' =
               Append(fraud_events,
                      FraudRow(Len(fraud_events) + 1, customer_id,
                               Text(<<IpToken>>), engine_now + offset))
        /\ pass_out' = NoPass
        /\ UNCHANGED <<cyber_threat_events, correlation_results, engine_now>>

\* the clock of the engine advances
EngineTick ==
    /\ engine_now < MaxTicks * TickMinutes
    /\ engine_now' = engine_now + TickMinutes
    /\ pass_out' = NoPass
    /\ UNCHANGED <<cyber_threat_events, fraud_events, correlation_results>>

\* _store_correlation on one correlation that the temporal or the
\* behavioral correlator finds in the events of the two tables
StoreCorrelation ==
    \E order \in IterationOrders(CustomerKeys(cyber_threat_events, fraud_events)) :
        \E correlation \in
               Range(find_temporal_correlations(cyber_threat_events, fraud_events))
               \cup Range(find_behavioral_correlations(cyber_threat_events,
                                                       fraud_events, order)) :
            /\ Len(correlation_results) < MaxStored
            /\ correlation_results' =
                   store_correlation(correlation_results, correlation, engine_now)
            /\ pass_out' = NoPass
            /\ UNCHANGED <<cyber_threat_events, fraud_events, engine_now>>

\* analyze_recent_activity()
AnalyzeRecentActivity ==
    \E cyber_rows \in OrderedDesc(RecentRows(cyber_threat_events, engine_now, WindowDays)),
       fraud_rows \in OrderedDesc(RecentRows(fraud_events, engine_now, WindowDays)) :
        \E order \in IterationOrders(CustomerKeys(RowsToDicts(cyber_rows).dicts,
                                                  RowsToDicts(fraud_rows).dicts)) :
            LET out == analyze_recent_activity(cyber_rows, fraud_rows, order)
            IN  /\ pass_out' = [status |-> out.status,
                                cyber_rows |-> out.cyber_rows,
                                fraud_rows |-> out.fraud_rows,
                                correlations |-> out.correlations,
                                stored_before |-> Len(correlation_results),
                                rerun |-> pass_out.status # "none"]
                /\ correlation_results' =
                       StoreAll(correlation_results, out.correlations, 1, engine_now)
                /\ UNCHANGED <<cyber_threat_events, fraud_events, engine_now>>

passFrame == <<temporal_out, behavioral_out, extract_out, ioc_out, risk_out>>

NextPass ==
    \/ PassInsertCyberEvent /\ UNCHANGED <<screenerVars, matchVars, passFrame, platformVars>>
    \/ PassInsertFraudEvent /\ UNCHANGED <<screenerVars, matchVars, passFrame, platformVars>>
    \/ EngineTick /\ UNCHANGED <<screenerVars, matchVars, passFrame, platformVars>>
    \/ StoreCorrelation /\ UNCHANGED <<screenerVars, matchVars, passFrame, platformVars>>
    \/ AnalyzeRecentActivity /\ UNCHANGED <<screenerVars, matchVars, passFrame, platformVars>>

InitPassSpec == IdleScreener /\ IdleMatch /\ IdleCorr

SpecPass == InitPassSpec /\ [][NextPass]_vars

-----------------------------------------------------------------------------
(* Claims on the correlation pass, checked under SpecPass *)

\* detected_at lies within [now - 7 days, now]
InWindow(row) ==
    /\ row.detected_at >= engine_now - 7 * 1440
    /\ row.detected_at <= engine_now

WindowOf(table) == { table[i] : i \in { j \in DOMAIN table : InWindow(table[j]) } }

\* the events of the window as a list, most recent first
WindowLists(table) ==
    { o \in [1..Cardinality(WindowOf(table)) -> WindowOf(table)] :
        /\ Range(o) = WindowOf(table)
        /\ \A i, j \in DOMAIN o : i < j => o[i].detected_at >= o[j].detected_at }

\* C14: the output of a pass is the outputs of the temporal, the behavioral
\* and the IOC correlator on the events of the window, one after the other,
\* nothing merged or dropped: its length is the sum of the three counts.
C14_PassConcatenates ==
    pass_out.status # "none" =>
        /\ pass_out.status = "returned"
        /\ \E cyber_list \in WindowLists(cyber_threat_events),
              fraud_list \in WindowLists(fraud_events) :
               \E order \in IterationOrders(CustomerKeys(cyber_list, fraud_list)) :
                   LET t == find_temporal_correlations(cyber_list, fraud_list)
                       b == find_behavioral_correlations(cyber_list, fraud_list, order)
                       i == find_ioc_correlations(cyber_list, fraud_list).correlations
                   IN  /\ pass_out.correlations = t \o b \o i
                       /\ Len(pass_out.correlations) = Len(t) + Len(b) + Len(i)

C17_WindowOnly ==
    pass_out.status # "none" =>
        /\ \A row \in Range(pass_out.cyber_rows) \cup Range(pass_out.fraud_rows) :
               InWindow(row)
        /\ \A k \in DOMAIN pass_out.correlations :
               pass_out.correlations[k].correlation_type # "BEHAVIORAL" =>
                   /\ InWindow(pass_out.correlations[k].cyber_event)
                   /\ InWindow(pass_out.correlations[k].fraud_event)

-----------------------------------------------------------------------------
(* CyberFraudCorrelationEngine: assess_customer_cyber_risk *)

RiskWindowDays == 30

\* (customer_id, severity, age in days) of the cyber events
RiskEventPool ==
    { <<"CUST001", "HIGH", 0>>,
      <<"CUST001", "CRITICAL", 0>>,
      <<"CUST001", "HIGH", 30>>,
      <<"CUST001", "HIGH", 31>>,
      <<"CUST002", "HIGH", 0>> }

\* customer_data.get('customer_id'): a customer id, or none
RiskCustomers == { "CUST001", "CUST002", "" }

\* date('now', '-30 days'): midnight of the day 30 days back; a detected_at
\* of that day or later compares greater than the date string
SinceDate(at, days) == ((at \div MinutesPerDay) - days) * MinutesPerDay

\* WHERE customer_id = ? AND detected_at > date('now', '-30 days')
RiskRows(table, customer_id, at) ==
    { i \in DOMAIN table :
        /\ table[i].customer_id = customer_id
        /\ table[i].detected_at >= SinceDate(at, RiskWindowDays) }

\* CASE WHEN severity = 'HIGH' THEN 1.0 ELSE 0.5 END, in halves
SeverityWeight(severity) == IF severity = "HIGH" THEN 2 ELSE 1

RECURSIVE SumWeights(_, _)
SumWeights(table, rows) ==
    IF rows = {} THEN 0
    ELSE LET i == CHOOSE j \in rows : TRUE
         IN  SeverityWeight(table[i].severity) + SumWeights(table, rows \ {i})

\* event_count * 10 + severity_score * 50 times event_count, without the
\* cap at 100
RiskTimesCount_NoCap(event_count, weights) ==
    10 * event_count * event_count + 25 * weights

\* min(event_count * 10 + severity_score * 50, 100) times event_count, where
\* severity_score = AVG(...) = weights / (2 * event_count), and 0 for no
\* event (AVG is NULL)
RiskTimesCount(event_count, weights) ==
    Min(10 * event_count * event_count + 25 * weights, 100 * event_count)

\* round(risk_score, 2), in hundredths
RoundedScore(event_count, weights) ==
    IF event_count = 0 THEN 0
    ELSE (2 * 100 * RiskTimesCount(event_count, weights) + event_count)
             \div (2 * event_count)

\* the level with > in place of >=
RiskLevel_Strict(event_count, weights) ==
    IF event_count = 0 THEN "LOW"
    ELSE IF RiskTimesCount(event_count, weights) > 70 * event_count THEN "HIGH"
    ELSE IF RiskTimesCount(event_count, weights) > 40 * event_count THEN "MEDIUM"
    ELSE "LOW"

\* risk_level: 'HIGH' if risk_score >= 70, 'MEDIUM' elif risk_score >= 40,
\* else 'LOW', on the score before rounding
RiskLevel(event_count, weights) ==
    IF event_count = 0 THEN "LOW"
    ELSE IF RiskTimesCount(event_count, weights) >= 70 * event_count THEN "HIGH"
    ELSE IF RiskTimesCount(event_count, weights) >= 40 * event_count THEN "MEDIUM"
    ELSE "LOW"

\* assess_customer_cyber_risk(customer_data)
assess_customer_cyber_risk(table, customer_id, at) ==
    IF customer_id = ""
    THEN [status |-> "error", customer_id |-> customer_id, assessment |-> << >>]
    ELSE LET rows == RiskRows(table, customer_id, at)
             event_count == Cardinality(rows)
             weights == SumWeights(table, rows)
         IN  [status |-> "returned",
              customer_id |-> customer_id,
              assessment |->
                  [cyber_risk_score |-> RoundedScore(event_count, weights),
                   risk_level |-> RiskLevel(event_count, weights),
                   recent_events_count |-> event_count]]

\* INSERT INTO cyber_threat_events, for the risk assessment
RiskInsertCyberEvent ==
    \E e \in RiskEventPool :
        /\ Len(cyber_threat_events) < MaxRiskEvents
        /\ cyber_threat_events' =
               Append(cyber_threat_events,
                      CyberRow(Len(cyber_threat_events) + 1, e[1], Text(<< >>),
                               e[2], engine_now - e[3] * MinutesPerDay, NoIocs))
        /\ risk_out' = NoRisk

\* assess_customer_cyber_risk on the table
AssessCustomerCyberRisk ==
    \E customer_id \in RiskCustomers :
        /\ risk_out' = assess_customer_cyber_risk(cyber_threat_events,
                                                  customer_id, engine_now)
        /\ UNCHANGED cyber_threat_events

riskFrame == <<fraud_events, temporal_out, behavioral_out, extract_out, ioc_out,
               correlation_results, engine_now, pass_out>>

NextRisk ==
    \/ RiskInsertCyberEvent /\ UNCHANGED <<screenerVars, matchVars, riskFrame, platformVars>>
    \/ AssessCustomerCyberRisk /\ UNCHANGED <<screenerVars, matchVars, riskFrame, platformVars>>

InitRiskSpec == IdleScreener /\ IdleMatch /\ IdleCorr

SpecRisk == InitRiskSpec /\ [][NextRisk]_vars

-----------------------------------------------------------------------------
(* Claims on the cyber risk score, checked under SpecRisk *)

\* the subject's cyber events of the last 30 days
RecentOf(customer_id) ==
    { i \in DOMAIN cyber_threat_events :
        /\ cyber_threat_events[i].customer_id = customer_id
        /\ cyber_threat_events[i].detected_at >= engine_now - 30 * 1440
        /\ cyber_threat_events[i].detected_at <= engine_now }

HighOf(customer_id) ==
    { i \in RecentOf(customer_id) : cyber_threat_events[i].severity = "HIGH" }

\* n * (n * 10 + avgSeverityWeight * 50) for n events of which h are HIGH:
\* avgSeverityWeight = (h + (n - h) / 2) / n
ScoreTimesN(n, h) == 10 * n * n + 25 * (n + h)

CappedTimesN(n, h) == IF ScoreTimesN(n, h) < 100 * n THEN ScoreTimesN(n, h) ELSE 100 * n

C20_LevelOfScore ==
    risk_out.status = "returned" =>
        LET score == risk_out.assessment.cyber_risk_score
            level == risk_out.assessment.risk_level
        IN  /\ level \in { "HIGH", "MEDIUM", "LOW" }
            /\ level = "HIGH" <=> score >= 7000
            /\ level = "MEDIUM" <=> (score >= 4000 /\ score < 7000)
            /\ level = "LOW" <=> score < 4000

\* C20 witness: a score of exactly 70 (two HIGH events) was given the level
\* HIGH
C20_Witness ==
    /\ risk_out.status = "returned"
    /\ risk_out.assessment.cyber_risk_score = 7000
    /\ risk_out.assessment.risk_level = "HIGH"

-----------------------------------------------------------------------------
(* CyberFraudPlatform: customer onboarding and the risk profile update *)

MaxOnboardEntities == 1   \* rows ever inserted into sanction_entities before an onboarding

\* dict.get(key, default)
DictGet(d, key, default) == IF key \in DOMAIN d THEN d[key] ELSE default

\* the columns of table customers, as created by setup_database
CustomersColumns ==
    { "customer_id", "customer_type", "name", "email", "phone", "nationality",
      "risk_category", "last_updated", "cyber_risk_score", "fraud_risk_score" }

\* the columns named by the INSERT OR REPLACE of _update_customer_risk_profile
ProfileColumns ==
    { "customer_id", "fraud_risk_score", "cyber_risk_score", "sanction_matches",
      "last_updated" }

\* self.pattern_detector.detect_customer_risk(customer_data): PatternDetector
\* has no such method, the attribute lookup raises AttributeError
detect_customer_risk(customer_data) ==
    [status |-> "raised", error |-> "AttributeError", patterns |-> << >>]

\* _calculate_fraud_risk_score: min(average confidence * 100, 100), the
\* confidences and the score in hundredths
calculate_fraud_risk_score(fraud_patterns) ==
    IF fraud_patterns = << >> THEN 0
    ELSE Min((100 * SumSeq(fraud_patterns)) \div Len(fraud_patterns), 100 * 100)

\* _update_customer_risk_profile(customer_id, results): the statement names a
\* column the table does not have, sqlite3 raises OperationalError, and the
\* except clause prints it; nothing is written.  With the column present the
\* row of the customer would be replaced, the columns not named getting NULL.
update_customer_risk_profile(rows, customer_id, results) ==
    LET fraud_score == results.fraud_risk.risk_score
        cyber_score == DictGet(results.cyber_risk, "risk_score", 0)
        sanction_matches == Len(results.sanction_screening)
    IN  IF ~(ProfileColumns \subseteq CustomersColumns)
        THEN [status |-> "failed", rows |-> rows]
        ELSE [status |-> "stored",
              rows |-> { c \in rows : c.customer_id # customer_id }
                         \cup { [customer_id |-> customer_id,
                                 name |-> "",
                                 nationality |-> "",
                                 risk_category |-> "",
                                 cyber_risk_score |-> cyber_score,
                                 fraud_risk_score |-> fraud_score] }]

\* fraud risk scores handed to the profile update, in hundredths
FraudScorePool == { 0, 5000, 8000 }

\* numbers of HIGH cyber events behind the assessment handed to the profile update
CyberEventCounts == { 0, 2 }

\* the assessment assess_customer_cyber_risk returns for a customer with n
\* HIGH events of today
AssessmentOf(customer_id, n) ==
    assess_customer_cyber_risk(
        [i \in 1..n |-> CyberRow(i, customer_id, Text(<< >>), "HIGH", 0, NoIocs)],
        customer_id, 0).assessment

\* _store_sanction_entities before an onboarding
OnboardStoreSanctionEntities ==
    /\ StoreSanctionEntities
    /\ next_entity_id' <= MaxOnboardEntities + 1
    /\ onboard_out' = NoOnboard
    /\ profile_out' = NoProfile
    /\ UNCHANGED alerts

\* process_customer_onboarding(customer_data)
ProcessCustomerOnboarding ==
    \E customer_data \in CustomerPool :
        LET screened == perform_screening(customer_data)
            stored == store_customer_data(customers, customer_data)
            detected == detect_customer_risk(customer_data)
            completes == screened.status = "returned" /\ detected.status = "returned"
            results == [sanction_screening |-> screened.matches,
                        fraud_risk |->
                            [risk_score |-> calculate_fraud_risk_score(detected.patterns)],
                        cyber_risk |->
                            assess_customer_cyber_risk(cyber_threat_events,
                                customer_data.customer_id, engine_now).assessment]
            updated == update_customer_risk_profile(stored, customer_data.customer_id,
                                                    results)
        IN  /\ Len(sanction_screening_results) < MaxScreenings
            /\ customers' = IF completes THEN updated.rows ELSE stored
            /\ sanction_screening_results' =
                   IF screened.status = "returned" /\ screened.matches # << >>
                   THEN store_screening_result(sanction_screening_results, customer_data,
                                               screened.matches, "SYSTEM_ALERT",
                                               "onboarding", now)
                   ELSE sanction_screening_results
            /\ screen_call' = [customer |-> customer_data, status |-> screened.status,
                               matches |-> screened.matches]
            /\ onboard_out' =
                   [status |-> IF completes THEN "returned" ELSE "raised",
                    customer_id |-> customer_data.customer_id,
                    matches |-> screened.matches]
            /\ alerts' =
                   IF completes /\ (Len(results.sanction_screening) > 0
                                      \/ results.fraud_risk.risk_score > 70 * 100)
                   THEN Append(alerts, "sanction")
                   ELSE alerts
            /\ lastOp' = "onboard"
            /\ ingest_call' = NoIngest
            /\ profile_out' = NoProfile
            /\ UNCHANGED <<sanction_entities, next_entity_id, now, latest>>

\* _update_customer_risk_profile(customer_id, results), the results being
\* those of a screening of the customer, a fraud score and an assessment
UpdateCustomerRiskProfile ==
    \E customer_data \in CustomerPool, fraud_score \in FraudScorePool,
       n \in CyberEventCounts :
        LET screened == perform_screening(customer_data)
            results == [sanction_screening |-> screened.matches,
                        fraud_risk |-> [risk_score |-> fraud_score],
                        cyber_risk |-> AssessmentOf(customer_data.customer_id, n)]
            updated == update_customer_risk_profile(customers,
                           customer_data.customer_id, results)
        IN  /\ screened.status = "returned"
            /\ customers' = updated.rows
            /\ profile_out' = [status |-> updated.status,
                               customer_id |-> customer_data.customer_id,
                               results |-> results]
            /\ onboard_out' = NoOnboard
            /\ lastOp' = "profile"
            /\ screen_call' = NoCall
            /\ ingest_call' = NoIngest
            /\ UNCHANGED <<sanction_entities, next_entity_id,
                           sanction_screening_results, now, latest, alerts>>

onboardFrame == <<store_out, download_out, txn, read_out, history_out,
                  analysis_out, daily_out>>

NextOnboard ==
    \/ OnboardStoreSanctionEntities
           /\ UNCHANGED <<matchVars, corrVars, engineVars, onboardFrame>>
    \/ ProcessCustomerOnboarding
           /\ UNCHANGED <<matchVars, corrVars, engineVars, onboardFrame>>
    \/ UpdateCustomerRiskProfile
           /\ UNCHANGED <<matchVars, corrVars, engineVars, onboardFrame>>

InitOnboardSpec == IdleScreener /\ IdleMatch /\ IdleCorr

SpecOnboard == InitOnboardSpec /\ [][NextOnboard]_vars

-----------------------------------------------------------------------------
(* Claims on the risk profile, checked under SpecOnboard *)

\* the rows of table customers that are the profile of the customer
ProfilesOf(customer_id) == { c \in customers : c.customer_id = customer_id }

\* C21: whenever a subject's profile is updated with at least one screening
\* result of match score >= 0.8, the resulting profile has risk level HIGH,
\* whatever the cyber and fraud scores: after a profile update, and after an
\* onboarding, whose screening returned a match, the customer has a profile
\* and its risk level is HIGH.
C21_SanctionOverride ==
    /\ (/\ profile_out.status # "none"
        /\ \E i \in DOMAIN profile_out.results.sanction_screening :
               profile_out.results.sanction_screening[i].match_score >= 800)
           => /\ ProfilesOf(profile_out.customer_id) # {}
              /\ \A c \in ProfilesOf(profile_out.customer_id) : c.risk_category = "HIGH"
    /\ (/\ onboard_out.status # "none"
        /\ \E i \in DOMAIN onboard_out.matches : onboard_out.matches[i].match_score >= 800)
           => /\ onboard_out.status = "returned"
              /\ \A c \in ProfilesOf(onboard_out.customer_id) : c.risk_category = "HIGH"

\* C22: after any sequence of profile updates there is exactly one profile per
\* updated subject, and it holds exactly the cyber and fraud scores of the most
\* recent update of the subject.
C22_ProfileReplaced ==
    profile_out.status # "none" =>
        /\ Cardinality(ProfilesOf(profile_out.customer_id)) = 1
        /\ \A c \in ProfilesOf(profile_out.customer_id) :
               /\ c.cyber_risk_score = profile_out.results.cyber_risk.cyber_risk_score
               /\ c.fraud_risk_score = profile_out.results.fraud_risk.risk_score

-----------------------------------------------------------------------------
(* CyberFraudCorrelationEngine: the store loop of the pass when a store fails *)

\* _store_correlation(correlation) where the INSERT raises (the database is
\* locked, the disk is full): the except clause prints the error and the
\* call returns; nothing is written by this call
store_correlation_failing(results, correlation, at, fails) ==
    IF fails THEN results ELSE store_correlation(results, correlation, at)

\* for correlation in correlations: self._store_correlation(correlation),
\* the stores at the positions in `faults` failing
RECURSIVE StoreLoop(_, _, _, _, _)
StoreLoop(results, correlations, faults, k, at) ==
    IF k > Len(correlations) THEN results
    ELSE StoreLoop(store_correlation_failing(results, correlations[k], at, k \in faults),
                   correlations, faults, k + 1, at)

\* the store loop of analyze_recent_activity on the correlations that the
\* temporal and the behavioral correlator find in the events of the two
\* tables; every commit is that of one _store_correlation call, and no
\* exception leaves the loop
PersistCorrelations ==
    \E order \in IterationOrders(CustomerKeys(cyber_threat_events, fraud_events)) :
        LET correlations ==
                find_temporal_correlations(cyber_threat_events, fraud_events)
                \o find_behavioral_correlations(cyber_threat_events, fraud_events, order)
        IN  \E faults \in SUBSET DOMAIN correlations :
                /\ correlations # << >>
                /\ Len(correlation_results) < MaxStored
                /\ correlation_results' =
                       StoreLoop(correlation_results, correlations, faults, 1, engine_now)
                /\ store_out' = [status |-> "returned",
                                 correlations |-> correlations,
                                 faults |-> faults,
                                 stored_before |-> Len(correlation_results)]
                /\ pass_out' = NoPass
                /\ UNCHANGED <<cyber_threat_events, fraud_events, engine_now>>

storeFrame == <<onboard_out, profile_out, alerts, download_out, txn, read_out,
                history_out, analysis_out, daily_out>>

NextStore ==
    \/ PassInsertCyberEvent /\ UNCHANGED <<screenerVars, matchVars, passFrame, platformVars>>
    \/ PassInsertFraudEvent /\ UNCHANGED <<screenerVars, matchVars, passFrame, platformVars>>
    \/ PersistCorrelations /\ UNCHANGED <<screenerVars, matchVars, passFrame, storeFrame>>

InitStoreSpec == IdleScreener /\ IdleMatch /\ IdleCorr

SpecStore == InitStoreSpec /\ [][NextStore]_vars

\* C23: if persisting a correlation fails during a correlation pass, the pass
\* is aborted, the failure is surfaced to the caller, and no correlation of
\* that pass remains persisted.
C23_StoreFailureAborts ==
    (store_out.status # "none" /\ store_out.faults # {}) =>
        /\ store_out.status = "raised"
        /\ Len(correlation_results) = store_out.stored_before

\* a loop over two correlations whose second store failed: the first record
\* is in the table
C23_PartialCommit ==
    /\ store_out.faults = {2}
    /\ Len(store_out.correlations) = 2
    /\ store_out.stored_before = 0
    /\ Len(correlation_results) = 1
    /\ correlation_results[1].correlation_type = "TEMPORAL"

-----------------------------------------------------------------------------
(* IntegratedSanctionScreener: download_sanction_lists and the failures of   *)
(* a record and of a source                                                 *)

MaxDownloads == 1   \* calls of download_sanction_lists

\* the sources of download_sanction_lists, in the order of the dict
DownloadSources == << "UN", "OFAC", "EU" >>

\* The loop of _store_sanction_entities with the try/except around the whole
\* loop: the first failing INSERT ends the batch.
RECURSIVE StoreEntitiesFailing_Abort(_, _, _, _, _, _)
StoreEntitiesFailing_Abort(rows, entities, source, faults, k, id) ==
    IF k > Len(entities) \/ k \in faults THEN [rows |-> rows, id |-> id]
    ELSE StoreEntitiesFailing_Abort(
             InsertOrReplace(rows, EntityRow(entities[k], source, id)),
             entities, source, faults, k + 1, id + 1)

\* The loop of _store_sanction_entities over entities[k..] where the INSERTs
\* at the positions in `faults` raise: the except clause inside the loop
\* prints the error and the loop goes on.  A failing INSERT takes no rowid.
RECURSIVE StoreEntitiesFailing(_, _, _, _, _, _)
StoreEntitiesFailing(rows, entities, source, faults, k, id) ==
    IF k > Len(entities) THEN [rows |-> rows, id |-> id]
    ELSE IF k \in faults
    THEN StoreEntitiesFailing(rows, entities, source, faults, k + 1, id)
    ELSE StoreEntitiesFailing(
             InsertOrReplace(rows, EntityRow(entities[k], source, id)),
             entities, source, faults, k + 1, id + 1)

\* What one source yields: kind "error" when session.get raises, "http" when
\* the status is not 200, "parsed" with the entities parse_sanction_xml
\* returns (none for malformed XML); faults are the positions whose INSERT
\* raises, commit_fails tells whether the commit of the batch raises.
Feed(kind, entities, faults, commit_fails) ==
    [kind |-> kind, entities |-> entities, faults |-> faults,
     commit_fails |-> commit_fails]

\* the parsers keep an entity only if it has a name
FeedJohnUs == Entity("john smith", "us", Dob19700101)
FeedJohnIr == Entity("john smith", "IR", Dob19700101)
FeedJoan == Entity("joan smit", "us", Dob1970)

FeedPool ==
    { Feed("error", << >>, {}, FALSE),
      Feed("http", << >>, {}, FALSE),
      Feed("parsed", << >>, {}, FALSE),
      Feed("parsed", << FeedJohnUs >>, {}, FALSE),
      Feed("parsed", << FeedJohnUs, FeedJoan >>, {1}, FALSE),
      Feed("parsed", << FeedJoan, FeedJohnIr >>, {2}, FALSE),
      Feed("parsed", << FeedJohnIr >>, {}, TRUE) }

\* The body of the loop of download_sanction_lists for one source.  st holds
\* the rows the connection sees, the next rowid, the rows committed, whether
\* a transaction is open, and success_count.  An exception of session.get or
\* of the commit is caught by the except clause of the loop body.
download_one(st, source, feed) ==
    IF feed.kind # "parsed" \/ feed.entities = << >> THEN st
    ELSE LET stored == StoreEntitiesFailing(st.rows, feed.entities, source,
                                            feed.faults, 1, st.id)
         IN  IF feed.commit_fails
             THEN [rows |-> stored.rows, id |-> stored.id,
                   committed |-> st.committed, open |-> TRUE,
                   success_count |-> st.success_count]
             ELSE [rows |-> stored.rows, id |-> stored.id,
                   committed |-> stored.rows, open |-> FALSE,
                   success_count |-> st.success_count + 1]

\* for source, url in sources.items(): ...
RECURSIVE download_sanction_lists(_, _, _)
download_sanction_lists(st, feeds, i) ==
    IF i > Len(DownloadSources) THEN st
    ELSE download_sanction_lists(download_one(st, DownloadSources[i], feeds[i]),
                                 feeds, i + 1)

\* download_sanction_lists()
DownloadSanctionLists ==
    \E feeds \in [DOMAIN DownloadSources -> FeedPool] :
        LET st == download_sanction_lists(
                      [rows |-> sanction_entities,
                       id |-> next_entity_id,
                       committed |-> IF txn.status = "open" THEN txn.committed
                                     ELSE sanction_entities,
                       open |-> txn.status = "open",
                       success_count |-> 0],
                      feeds, 1)
        IN  /\ download_out.calls < MaxDownloads
            /\ sanction_entities' = st.rows
            /\ next_entity_id' = st.id
            /\ txn' = IF st.open
                      THEN [NoTxn EXCEPT !.status = "open", !.committed = st.committed]
                      ELSE NoTxn
            /\ download_out' = [status |-> "returned",
                                feeds |-> feeds,
                                success_count |-> st.success_count,
                                before |-> sanction_entities,
                                calls |-> download_out.calls + 1]
            /\ lastOp' = "download"
            /\ screen_call' = NoCall
            /\ ingest_call' = NoIngest
            /\ UNCHANGED <<customers, sanction_screening_results, now, latest>>

downloadFrame == <<onboard_out, profile_out, alerts, store_out, read_out,
                   history_out, analysis_out, daily_out>>

NextDownload ==
    DownloadSanctionLists /\ UNCHANGED <<matchVars, corrVars, engineVars, downloadFrame>>

InitDownloadSpec == IdleScreener /\ IdleMatch /\ IdleCorr

SpecDownload == InitDownloadSpec /\ [][NextDownload]_vars

-----------------------------------------------------------------------------
(* Claims on the failures of an ingestion, checked under SpecDownload *)

\* entity k of the feed is the last entity of its key that the feed stores
LastOfKey(feed, k) ==
    \A j \in DOMAIN feed.entities \ feed.faults :
        (j > k /\ feed.entities[j].name = feed.entities[k].name
               /\ feed.entities[j].dob = feed.entities[k].dob) => FALSE

\* the table holds the entity as an entry of the source
HoldsEntry(source, entity) ==
    \E r \in Range(sanction_entities) :
        /\ r.list_source = source
        /\ r.name = entity.name
        /\ r.dob = SqlDateAffinity(entity.dob)
        /\ r.nationality = entity.nationality

\* the sources of the call whose batch was stored and committed
StoredSources ==
    { i \in DOMAIN download_out.feeds :
        /\ download_out.feeds[i].kind = "parsed"
        /\ download_out.feeds[i].entities # << >>
        /\ ~download_out.feeds[i].commit_fails }

\* C24: a failure on one record of an ingestion batch does not abort the
\* batch, every other entry of the batch is stored; and a failure to download,
\* parse or store one source does not prevent the other sources from being
\* ingested: after a download, every entry whose INSERT did not fail, of every
\* source whose batch was parsed and committed, is in the table, whatever
\* happened to the other records and to the other sources, and the call
\* returns the number of those sources.
C24_FailuresIsolated ==
    download_out.status # "none" =>
        /\ \A i \in StoredSources :
               \A k \in DOMAIN download_out.feeds[i].entities
                          \ download_out.feeds[i].faults :
                   LastOfKey(download_out.feeds[i], k) =>
                       HoldsEntry(DownloadSources[i], download_out.feeds[i].entities[k])
        /\ download_out.success_count = Cardinality(StoredSources)

\* C24 witness: the download of UN failed, the INSERT of the first OFAC record
\* failed and the second OFAC record is stored, and the EU record is stored
\* after them
C24_Witness ==
    /\ download_out.status = "returned"
    /\ download_out.feeds[1].kind = "error"
    /\ download_out.feeds[2] = Feed("parsed", << FeedJohnUs, FeedJoan >>, {1}, FALSE)
    /\ download_out.feeds[3] = Feed("parsed", << FeedJohnUs >>, {}, FALSE)
    /\ download_out.before = << >>
    /\ Len(sanction_entities) = 2
    /\ sanction_entities[1].list_source = "OFAC"
    /\ sanction_entities[1].name = "joan smit"
    /\ sanction_entities[2].list_source = "EU"
    /\ download_out.success_count = 2

-----------------------------------------------------------------------------
(* IntegratedSanctionScreener: an ingestion and the screening of a second    *)
(* connection to the same database file                                     *)
(*                                                                         *)
(* Every IntegratedSanctionScreener opens its own connection, and a          *)
(* connection is bound to the thread that made it, so a screening that runs  *)
(* while _store_sanction_entities is between two INSERTs is that of another  *)
(* connection.  The INSERTs of a batch are in one transaction, which the     *)
(* commit at the end of _store_sanction_entities ends.                       *)

\* a SELECT that reads the uncommitted rows of another connection
CommittedRows_Dirty(rows, transaction) == rows

\* the rows of sanction_entities a SELECT of a second connection returns:
\* those committed, which are the rows from before the open transaction
CommittedRows(rows, transaction) ==
    IF transaction.status = "open" THEN transaction.committed ELSE rows

\* _store_sanction_entities(entities, source) is entered
BeginStore ==
    \E source \in Sources, entities \in Batches :
        /\ txn.status = "none"
        /\ next_entity_id + Len(entities) - 1 <= MaxEntityId
        /\ txn' = [status |-> "open", committed |-> sanction_entities,
                   source |-> source, entities |-> entities, k |-> 1]
        /\ lastOp' = "begin"
        /\ UNCHANGED <<sanction_entities, next_entity_id, latest, ingest_call, read_out>>

\* one turn of the loop of _store_sanction_entities: cursor.execute(INSERT OR REPLACE)
StoreStep ==
    /\ txn.status = "open"
    /\ txn.k <= Len(txn.entities)
    /\ sanction_entities' =
           InsertOrReplace(sanction_entities,
                           EntityRow(txn.entities[txn.k], txn.source, next_entity_id))
    /\ next_entity_id' = next_entity_id + 1
    /\ txn' = [txn EXCEPT !.k = txn.k + 1]
    /\ lastOp' = "insert"
    /\ UNCHANGED <<latest, ingest_call, read_out>>

\* self.db_conn.commit() at the end of _store_sanction_entities
CommitStore ==
    /\ txn.status = "open"
    /\ txn.k > Len(txn.entities)
    /\ txn' = NoTxn
    /\ latest' = RecordLatest(latest, txn.entities, txn.source, 1)
    /\ ingest_call' = [source |-> txn.source, entities |-> txn.entities]
    /\ lastOp' = "ingest"
    /\ UNCHANGED <<sanction_entities, next_entity_id, read_out>>

\* SELECT * FROM sanction_entities of perform_screening, on a second connection
ConcurrentScreening ==
    /\ read_out' = [status |-> "read",
                    rows |-> CommittedRows(sanction_entities, txn),
                    txn |-> txn]
    /\ lastOp' = "read"
    /\ UNCHANGED <<sanction_entities, next_entity_id, latest, ingest_call, txn>>

concurrentFrame == <<customers, sanction_screening_results, now, screen_call,
                     onboard_out, profile_out, alerts, store_out, download_out,
                     history_out, analysis_out, daily_out>>

NextConcurrent ==
    \/ BeginStore /\ UNCHANGED <<matchVars, corrVars, engineVars, concurrentFrame>>
    \/ StoreStep /\ UNCHANGED <<matchVars, corrVars, engineVars, concurrentFrame>>
    \/ CommitStore /\ UNCHANGED <<matchVars, corrVars, engineVars, concurrentFrame>>
    \/ ConcurrentScreening /\ UNCHANGED <<matchVars, corrVars, engineVars, concurrentFrame>>

InitConcurrentSpec == IdleScreener /\ IdleMatch /\ IdleCorr

SpecConcurrent == InitConcurrentSpec /\ [][NextConcurrent]_vars

-----------------------------------------------------------------------------
(* Claim on the concurrent screening, checked under SpecConcurrent *)

\* the entries of the source among the rows
EntriesOf(rows, source) ==
    { [name |-> r.name, dob |-> r.dob, nationality |-> r.nationality] :
        r \in { x \in Range(rows) : x.list_source = source } }

-----------------------------------------------------------------------------
(* CyberFraudCorrelationEngine: get_customer_correlation_history *)

\* LIMIT 20
HistoryLimit == 20

\* the value of a column the INSERT of _store_correlation does not name: NULL,
\* which is equal to no id
NullId == 0

HistoryCustomers == { "CUST001", "CUST002" }

\* ON cr.<column> = e.id WHERE e.customer_id = ?: the record is joined to an
\* event of the customer
JoinsCustomer(record, column, table, customer_id) ==
    \E i \in DOMAIN table :
        /\ DictGet(record, column, NullId) = table[i].id
        /\ table[i].customer_id = customer_id

\* the rows of the query of get_customer_correlation_history
HistoryRows(results, cyber_table, fraud_table, customer_id) ==
    { results[i] : i \in { j \in DOMAIN results :
        \/ JoinsCustomer(results[j], "cyber_event_id", cyber_table, customer_id)
        \/ JoinsCustomer(results[j], "fraud_event_id", fraud_table, customer_id) } }

\* ORDER BY cr.created_at DESC LIMIT 20: the lists the query can return
HistoryLists(rows) ==
    { SubSeq(o, 1, Min(Len(o), HistoryLimit)) :
        o \in { p \in IterationOrders(rows) :
                  \A i, j \in DOMAIN p : i < j => p[i].created_at >= p[j].created_at } }

\* get_customer_correlation_history(customer_id): a row there is makes
\* dict(row) raise
get_customer_correlation_history(rows) ==
    LET converted == RowsToDicts(rows)
    IN  [status |-> converted.status, records |-> converted.dicts]

\* get_customer_correlation_history(customer_id)
GetCustomerCorrelationHistory ==
    \E customer_id \in HistoryCustomers :
        \E rows \in HistoryLists(HistoryRows(correlation_results, cyber_threat_events,
                                             fraud_events, customer_id)) :
            LET out == get_customer_correlation_history(rows)
            IN  /\ history_out' = [status |-> out.status,
                                   customer_id |-> customer_id,
                                   records |-> out.records]
                /\ UNCHANGED <<cyber_threat_events, fraud_events, correlation_results,
                               engine_now, pass_out>>

historyFrame == <<onboard_out, profile_out, alerts, store_out, download_out, txn,
                  read_out, analysis_out, daily_out>>

NextHistory ==
    \/ PassInsertCyberEvent
           /\ UNCHANGED <<screenerVars, matchVars, passFrame, platformVars>>
    \/ PassInsertFraudEvent
           /\ UNCHANGED <<screenerVars, matchVars, passFrame, platformVars>>
    \/ StoreCorrelation
           /\ UNCHANGED <<screenerVars, matchVars, passFrame, platformVars>>
    \/ GetCustomerCorrelationHistory
           /\ UNCHANGED <<screenerVars, matchVars, passFrame, historyFrame>>

InitHistorySpec == IdleScreener /\ IdleMatch /\ IdleCorr

SpecHistory == InitHistorySpec /\ [][NextHistory]_vars

\* C26: after a TEMPORAL or IOC correlation between a cyber event and a fraud
\* event of customer c has been persisted, get_customer_correlation_history(c)
\* includes it, the stored record referencing its two events, and the history
\* never holds more than 20 records.  All events of the tables are those of
\* CUST001, so every stored TEMPORAL or IOC record is a correlation of that
\* customer.
C26_HistoryIncludes ==
    (history_out.status # "none" /\ history_out.customer_id = "CUST001") =>
        /\ history_out.status = "returned"
        /\ Len(history_out.records) <= 20
        /\ \A i \in DOMAIN correlation_results :
               correlation_results[i].correlation_type \in { "TEMPORAL", "IOC" } =>
                   /\ DictGet(correlation_results[i], "cyber_event_id", NullId) # NullId
                   /\ DictGet(correlation_results[i], "fraud_event_id", NullId) # NullId
                   /\ \E k \in DOMAIN history_out.records :
                          history_out.records[k].id = correlation_results[i].id

-----------------------------------------------------------------------------
(* CyberFraudPlatform: run_correlation_analysis *)

\* config['alerting']['high_risk_threshold'], default 0.7, in hundredths
HighRiskThreshold == 70

\* [corr for corr in correlations
\*    if corr.get('correlation_score', 0) >= high_risk_threshold]:
\* the correlators name the figure confidence_score, so 0 is compared
HighRiskCorrelations(correlations, threshold) ==
    SelectSeq(correlations, LAMBDA corr : DictGet(corr, "correlation_score", 0) >= threshold)

\* n calls of send_comprehensive_alert(alert_type, ...)
SendAlerts(log, alert_type, n) == log \o [i \in 1..n |-> alert_type]

\* run_correlation_analysis given the outcome of analyze_recent_activity:
\* its exception is caught and {'error': ...} is returned
run_correlation_analysis(out, log, threshold) ==
    IF out.status = "raised"
    THEN [status |-> "error", total_correlations |-> 0,
          high_risk_correlations |-> 0, alerts |-> log]
    ELSE LET high == HighRiskCorrelations(out.correlations, threshold)
         IN  [status |-> "returned",
              total_correlations |-> Len(out.correlations),
              high_risk_correlations |-> Len(high),
              alerts |-> SendAlerts(log, "correlation", Len(high))]

\* run_correlation_analysis()
RunCorrelationAnalysis ==
    /\ AnalyzeRecentActivity
    /\ LET res == run_correlation_analysis(pass_out', alerts, HighRiskThreshold)
       IN  /\ analysis_out' = [status |-> res.status,
                               via |-> "pass",
                               correlations |-> pass_out'.correlations,
                               total_correlations |-> res.total_correlations,
                               high_risk_correlations |-> res.high_risk_correlations,
                               alerts_before |-> Len(alerts)]
           /\ alerts' = res.alerts

\* the filter and the alert loop of run_correlation_analysis on the
\* correlations that the temporal and the behavioral correlator find in the
\* events of the two tables
AlertHighRiskCorrelations ==
    \E order \in IterationOrders(CustomerKeys(cyber_threat_events, fraud_events)) :
        LET correlations ==
                find_temporal_correlations(cyber_threat_events, fraud_events)
                \o find_behavioral_correlations(cyber_threat_events, fraud_events, order)
            res == run_correlation_analysis(
                       [status |-> "returned", correlations |-> correlations],
                       alerts, HighRiskThreshold)
        IN  /\ correlations # << >>
            /\ analysis_out' = [status |-> res.status,
                                via |-> "filter",
                                correlations |-> correlations,
                                total_correlations |-> res.total_correlations,
                                high_risk_correlations |-> res.high_risk_correlations,
                                alerts_before |-> Len(alerts)]
            /\ alerts' = res.alerts
            /\ pass_out' = NoPass
            /\ UNCHANGED <<cyber_threat_events, fraud_events, correlation_results,
                           engine_now>>

analysisFrame == <<onboard_out, profile_out, store_out, download_out, txn,
                   read_out, history_out, daily_out>>

NextAnalysis ==
    \/ PassInsertCyberEvent
           /\ UNCHANGED <<screenerVars, matchVars, passFrame, platformVars>>
    \/ PassInsertFraudEvent
           /\ UNCHANGED <<screenerVars, matchVars, passFrame, platformVars>>
    \/ EngineTick
           /\ UNCHANGED <<screenerVars, matchVars, passFrame, platformVars>>
    \/ RunCorrelationAnalysis
           /\ UNCHANGED <<screenerVars, matchVars, passFrame, analysisFrame>>
    \/ AlertHighRiskCorrelations
           /\ UNCHANGED <<screenerVars, matchVars, passFrame, analysisFrame>>

InitAnalysisSpec == IdleScreener /\ IdleMatch /\ IdleCorr

SpecAnalysis == InitAnalysisSpec /\ [][NextAnalysis]_vars

\* the positions of the correlations whose confidence is >= 0.7
HighConfidence(correlations) ==
    { k \in DOMAIN correlations : correlations[k].confidence_score >= 70 }

\* C27: run_correlation_analysis sends one 'correlation' alert for every
\* correlation of the pass whose confidence is >= the high_risk_threshold
\* (0.7), none for a correlation below it, and reports their number as
\* high_risk_correlations.
C27_AlertPerHighRisk ==
    analysis_out.status # "none" =>
        /\ analysis_out.status = "returned"
        /\ Len(alerts) =
               analysis_out.alerts_before
               + Cardinality(HighConfidence(analysis_out.correlations))
        /\ \A k \in (analysis_out.alerts_before + 1)..Len(alerts) :
               alerts[k] = "correlation"
        /\ analysis_out.high_risk_correlations =
               Cardinality(HighConfidence(analysis_out.correlations))

\* the filter was applied to a TEMPORAL correlation of confidence 0.8 and no
\* alert was sent
C27_NoAlert ==
    /\ analysis_out.status = "returned"
    /\ \E k \in DOMAIN analysis_out.correlations :
           /\ analysis_out.correlations[k].correlation_type = "TEMPORAL"
           /\ analysis_out.correlations[k].confidence_score = 80
    /\ analysis_out.high_risk_correlations = 0
    /\ alerts = << >>

-----------------------------------------------------------------------------
(* CyberFraudPlatform: run_daily_operations *)

MaxDailyRuns == 2   \* calls of run_daily_operations

\* config['modules']
ModuleNames == { "threat_intel", "fraud_detection", "sanction_screening",
                 "correlation_engine" }

\* the phases of the try block, named by the key they set in results; the
\* last one, the summary alert, sets none
PhaseOrder == << "threat_intel", "fraud_analysis", "sanction_updates",
                 "correlation_analysis", "report_file", "summary" >>

\* What the environment does to a run: whether analyze_fraud_patterns raises
\* on the collected items, whether these hold a high-confidence scenario,
\* whether a statistics query of update_sanction_screening raises, whether
\* the directory research_outputs exists, and what the three sources yield.
DailyFeeds ==
    { [i \in DOMAIN DownloadSources |-> Feed("error", << >>, {}, FALSE)],
      [i \in DOMAIN DownloadSources |->
           IF i = 1 THEN Feed("parsed", << FeedJohnUs >>, {}, FALSE)
           ELSE Feed("http", << >>, {}, FALSE)] }

DailyEnvs ==
    [fraud_raises : BOOLEAN, high_confidence : BOOLEAN, sanction_raises : BOOLEAN,
     outputs_dir : BOOLEAN, feeds : DailyFeeds]

\* a phase that runs although an earlier phase has raised
Runs_AfterFailure(st, enabled) == enabled

\* a phase of the try block runs if no earlier phase has raised and its
\* module is enabled
Runs(st, enabled) == st.failed = "" /\ enabled

\* the phase returns: its key is set in results
Done(st, phase) ==
    [st EXCEPT !.ran = Append(@, phase), !.results = @ \cup {phase}]

\* the phase raises: control goes to the except clause
Raised(st, phase) ==
    [st EXCEPT !.ran = Append(@, phase), !.failed = phase]

\* phase 1: scrape_all_sources catches the exceptions of every source
ThreatIntelPhase(st, modules) ==
    IF Runs(st, modules["threat_intel"]) THEN Done(st, "threat_intel") ELSE st

\* phase 2: analyze_fraud_patterns on results.get('threat_intel', []), with
\* the 'fraud' alert for high-confidence scenarios
FraudAnalysisPhase(st, modules, env) ==
    IF ~Runs(st, modules["fraud_detection"]) THEN st
    ELSE IF "threat_intel" \notin st.results THEN Done(st, "fraud_analysis")
    ELSE IF env.fraud_raises THEN Raised(st, "fraud_analysis")
    ELSE IF env.high_confidence
    THEN [Done(st, "fraud_analysis") EXCEPT !.alerts = Append(@, "fraud")]
    ELSE Done(st, "fraud_analysis")

\* phase 3: update_sanction_screening, the download first, then the queries
SanctionUpdatePhase(st, modules, env) ==
    IF ~Runs(st, modules["sanction_screening"]) THEN st
    ELSE IF env.sanction_raises THEN Raised(st, "sanction_updates")
    ELSE Done(st, "sanction_updates")

\* phase 4: run_correlation_analysis catches its exceptions
CorrelationPhase(st, modules, res) ==
    IF ~Runs(st, modules["correlation_engine"]) THEN st
    ELSE [Done(st, "correlation_analysis") EXCEPT !.alerts = res.alerts]

\* phase 5: generate_comprehensive_report opens a file in research_outputs/
ReportPhase(st, env) ==
    IF ~Runs(st, TRUE) THEN st
    ELSE IF env.outputs_dir THEN Done(st, "report_file")
    ELSE Raised(st, "report_file")

\* send_operations_summary
SummaryPhase(st) ==
    IF ~Runs(st, TRUE) THEN st
    ELSE [st EXCEPT !.ran = Append(@, "summary"),
                    !.alerts = Append(@, "platform_daily_report")]

\* except Exception: the 'platform_error' alert; send_comprehensive_alert
\* catches the failures of its channels
ExceptClause(st) ==
    IF st.failed = "" THEN st
    ELSE [st EXCEPT !.alerts = Append(@, "platform_error")]

\* run_daily_operations()
RunDailyOperations ==
    \E modules \in [ModuleNames -> BOOLEAN], env \in DailyEnvs :
        \E cyber_rows \in OrderedDesc(RecentRows(cyber_threat_events, engine_now, WindowDays)),
           fraud_rows \in OrderedDesc(RecentRows(fraud_events, engine_now, WindowDays)) :
          \E order \in IterationOrders(CustomerKeys(RowsToDicts(cyber_rows).dicts,
                                                    RowsToDicts(fraud_rows).dicts)) :
            LET s0 == [ran |-> << >>, results |-> {}, failed |-> "", alerts |-> alerts]
                s1 == ThreatIntelPhase(s0, modules)
                s2 == FraudAnalysisPhase(s1, modules, env)
                downloads == Runs(s2, modules["sanction_screening"])
                dl == download_sanction_lists(
                          [rows |-> sanction_entities,
                           id |-> next_entity_id,
                           committed |-> IF txn.status = "open" THEN txn.committed
                                         ELSE sanction_entities,
                           open |-> txn.status = "open",
                           success_count |-> 0],
                          env.feeds, 1)
                s3 == SanctionUpdatePhase(s2, modules, env)
                correlates == Runs(s3, modules["correlation_engine"])
                out == analyze_recent_activity(cyber_rows, fraud_rows, order)
                res == run_correlation_analysis(out, s3.alerts, HighRiskThreshold)
                s4 == CorrelationPhase(s3, modules, res)
                s5 == ReportPhase(s4, env)
                s6 == SummaryPhase(s5)
                s7 == ExceptClause(s6)
            IN  /\ daily_out.calls < MaxDailyRuns
                /\ daily_out' = [status |-> "returned",
                                 modules |-> modules,
                                 results |-> s7.results,
                                 ran |-> s7.ran,
                                 failed |-> s7.failed,
                                 alerts_before |-> Len(alerts),
                                 calls |-> daily_out.calls + 1]
                /\ alerts' = s7.alerts
                /\ IF downloads
                   THEN /\ sanction_entities' = dl.rows
                        /\ next_entity_id' = dl.id
                        /\ txn' = IF dl.open
                                  THEN [NoTxn EXCEPT !.status = "open",
                                                     !.committed = dl.committed]
                                  ELSE NoTxn
                        /\ download_out' = [status |-> "returned",
                                            feeds |-> env.feeds,
                                            success_count |-> dl.success_count,
                                            before |-> sanction_entities,
                                            calls |-> download_out.calls + 1]
                        /\ lastOp' = "download"
                   ELSE UNCHANGED <<sanction_entities, next_entity_id, txn,
                                    download_out, lastOp>>
                /\ IF correlates
                   THEN /\ pass_out' = [status |-> out.status,
                                        cyber_rows |-> out.cyber_rows,
                                        fraud_rows |-> out.fraud_rows,
                                        correlations |-> out.correlations,
                                        stored_before |-> Len(correlation_results),
                                        rerun |-> pass_out.status # "none"]
                        /\ correlation_results' =
                               StoreAll(correlation_results, out.correlations, 1,
                                        engine_now)
                        /\ analysis_out' =
                               [status |-> res.status,
                                via |-> "pass",
                                correlations |-> out.correlations,
                                total_correlations |-> res.total_correlations,
                                high_risk_correlations |-> res.high_risk_correlations,
                                alerts_before |-> Len(s3.alerts)]
                   ELSE UNCHANGED <<pass_out, correlation_results, analysis_out>>
                /\ UNCHANGED <<customers, sanction_screening_results, now, screen_call,
                               ingest_call, latest, cyber_threat_events, fraud_events,
                               engine_now>>

dailyFrame == <<matchVars, temporal_out, behavioral_out, extract_out, ioc_out,
                risk_out, onboard_out, profile_out, store_out, read_out,
                history_out>>

NextDaily == RunDailyOperations /\ UNCHANGED dailyFrame

InitDailySpec == IdleScreener /\ IdleMatch /\ IdleCorr

SpecDaily == InitDailySpec /\ [][NextDaily]_vars

\* the module switch of a phase; the report and the summary have none
PhaseEnabled(modules, phase) ==
    CASE phase = "threat_intel" -> modules["threat_intel"]
      [] phase = "fraud_analysis" -> modules["fraud_detection"]
      [] phase = "sanction_updates" -> modules["sanction_screening"]
      [] phase = "correlation_analysis" -> modules["correlation_engine"]
      [] OTHER -> TRUE

\* the enabled phases among the first n of the fixed order, in that order
RECURSIVE EnabledPhases(_, _)
EnabledPhases(modules, n) ==
    IF n = 0 THEN << >>
    ELSE IF PhaseEnabled(modules, PhaseOrder[n])
    THEN Append(EnabledPhases(modules, n - 1), PhaseOrder[n])
    ELSE EnabledPhases(modules, n - 1)

PhaseIndex(phase) == CHOOSE i \in DOMAIN PhaseOrder : PhaseOrder[i] = phase

\* the alerts of the given type the last run has sent
AlertsOfRun(alert_type) ==
    { i \in DOMAIN alerts : i > daily_out.alerts_before /\ alerts[i] = alert_type }

\* C28: a run of the daily operations executes the enabled phases in the
\* fixed order threat intelligence, fraud analysis, sanction update,
\* correlation analysis, report, summary alert; when a phase raises, no later
\* phase runs, exactly one 'platform_error' alert is sent, and the call
\* returns the results of the phases completed before the failure.
C28_DailyPhases ==
    daily_out.status # "none" =>
        /\ daily_out.status = "returned"
        /\ IF daily_out.failed = ""
           THEN /\ daily_out.ran = EnabledPhases(daily_out.modules, Len(PhaseOrder))
                /\ daily_out.results = Range(daily_out.ran) \ {"summary"}
                /\ AlertsOfRun("platform_error") = {}
           ELSE /\ daily_out.ran =
                       EnabledPhases(daily_out.modules, PhaseIndex(daily_out.failed))
                /\ daily_out.ran[Len(daily_out.ran)] = daily_out.failed
                /\ daily_out.results = Range(daily_out.ran) \ {daily_out.failed}
                /\ Cardinality(AlertsOfRun("platform_error")) = 1
                /\ alerts[Len(alerts)] = "platform_error"

\* the sanction update raises after two completed phases while the
\* correlation engine is enabled
C28_Witness ==
    /\ daily_out.status = "returned"
    /\ daily_out.failed = "sanction_updates"
    /\ daily_out.modules["correlation_engine"]
    /\ daily_out.results = {"threat_intel", "fraud_analysis"}
    /\ Cardinality(AlertsOfRun("platform_error")) = 1

-----------------------------------------------------------------------------
(* Stored screening results *)

\* the record holds at least one match, none below the threshold, and its
\* score is the highest score of its matches
ScoreIsMaxOfMatches(r) ==
    /\ r.matched_entities # << >>
    /\ \A i \in DOMAIN r.matched_entities :
           /\ r.matched_entities[i].match_score >= AdmissionThreshold
           /\ r.matched_entities[i].match_score <= r.match_score
    /\ \E i \in DOMAIN r.matched_entities :
           r.matched_entities[i].match_score = r.match_score

\* a screening that has found no match leaves the table as it was
NoMatchWritesNothing ==
    (lastOp' = "screen" /\ screen_call'.matches = << >>)
        => sanction_screening_results' = sanction_screening_results

\* C29: every stored screening-result record has a match score of at least
\* 0.8 (800 thousandths) that is the maximum over the matches stored with it,
\* and a screening that finds no match writes no record.
C29_StoredScoreAdmitted ==
    /\ [](\A i \in DOMAIN sanction_screening_results :
              /\ sanction_screening_results[i].match_score >= AdmissionThreshold
              /\ ScoreIsMaxOfMatches(sanction_screening_results[i]))
    /\ [][NoMatchWritesNothing]_vars

\* a stored record of two matches with different scores
C29_Witness ==
    \E i \in DOMAIN sanction_screening_results :
        LET r == sanction_screening_results[i]
        IN  /\ Len(r.matched_entities) = 2
            /\ r.matched_entities[1].match_score < r.matched_entities[2].match_score
            /\ r.match_score = r.matched_entities[2].match_score

-----------------------------------------------------------------------------
(* Entries kept by ingestion *)

StoredKeys(rows) == { EntityKey(rows[i]) : i \in DOMAIN rows }

\* the keys under which a batch of a source is stored
BatchKeys(entities, source) ==
    { EntityKey(EntityRow(entities[k], source, 0)) : k \in DOMAIN entities }

\* no step removes a key, and an ingestion leaves every row whose key is not
\* in its batch as it was
KeysOnlyGrow ==
    /\ StoredKeys(sanction_entities) \subseteq StoredKeys(sanction_entities')
    /\ lastOp' = "ingest" =>
           \A i \in DOMAIN sanction_entities :
               EntityKey(sanction_entities[i])
                       \notin BatchKeys(ingest_call'.entities, ingest_call'.source)
                   => sanction_entities[i] \in Range(sanction_entities')

C30_KeysOnlyGrow == [][KeysOnlyGrow]_vars

\* the matcher admits the stored row for the customer
Admits(customer_data, row) ==
    LET scored == calculate_match_score(customer_data, row)
    IN  scored.status = "ok" /\ scored.score >= AdmissionThreshold

\* C30: ingestion never removes an entry: the set of (source, name, dob) keys
\* of sanction_entities only grows, an entry that is not in a later batch
\* stays as it was, and a later screening still returns every stored entry
\* the matcher admits for the customer.
C30_EntriesKept ==
    /\ [][KeysOnlyGrow]_vars
    /\ [](lastOp = "screen" =>
             \A i \in DOMAIN sanction_entities :
                 Admits(screen_call.customer, sanction_entities[i])
                     => \E k \in DOMAIN screen_call.matches :
                            screen_call.matches[k].sanction_entity = sanction_entities[i])

\* an entry that an earlier screening returned is stored beside the entry of
\* a later batch and the screening of the same customer returns nothing
C30_KeptEntryMissed ==
    /\ lastOp = "screen"
    /\ screen_call.status = "raised"
    /\ Len(sanction_entities) = 2
    /\ Admits(screen_call.customer, sanction_entities[1])

====
